---- MODULE Spec2Model ----
(***************************************************************************)
(* The gateway protocol bridge of pixel-agents.                            *)
(*                                                                         *)
(* GatewayClient (src/server/gatewayClient.ts) owns the upstream socket:   *)
(* handshake, request/response correlation, keepalive and reconnection.    *)
(* Every method of the class is an operator from a client record to a      *)
(* client record, written statement by statement after the source; every   *)
(* entry point (public method, timer callback, socket event handler) is    *)
(* one action that applies the operator to the current state.              *)
(*                                                                         *)
(* The ws sockets are modelled by their readyState.  A socket that has     *)
(* emitted 'close' gives its slot back.  The client can hold handlers on   *)
(* more than one live socket, so sockets live in slots 1..MaxSockets and   *)
(* the field this.ws is a slot number, or 0 for null.                      *)
(*                                                                         *)
(* EventTranslator (eventTranslator.ts) listens to the client: it keeps    *)
(* the roster of agents and turns gateway events into dashboard messages,  *)
(* which DashboardServer (dashboardServer.ts) sends to every browser whose *)
(* socket is open.  Their methods are operators on the same record.        *)
(*                                                                         *)
(* Spec drives the client alone, with every call and socket event in any   *)
(* order.  TranslatorSpec is the program as index.ts starts it, with the   *)
(* events the translator reads; HubSpec adds the browsers.  ReplaySpec     *)
(* adds the tool and approval events of one session and the messages of    *)
(* the browsers (ready signal, approval answer); ApprovalSpec adds the     *)
(* gateway's responses; SnapshotSpec is ReplaySpec with the history of     *)
(* what each browser was sent, and StatusSpec keeps that history while the *)
(* gateway's socket opens, is lost and is retried.                         *)
(*                                                                         *)
(* WebSocketClient (src/api/wsClient.ts) is the browser's end of a         *)
(* dashboard socket: one record, wsClient, written the same way, and       *)
(* driven alone by ObserverSpec; BrowserSpec joins it to the server, with  *)
(* what it sends arriving at the server's 'message' handler.               *)
(*                                                                         *)
(* formatToolStatus (eventTranslator.ts) is a pure function on strings,    *)
(* which are sequences of code points here; FormatSpec applies it to the   *)
(* tool names and inputs of its initial states.                            *)
(***************************************************************************)
EXTENDS Integers, Sequences, FiniteSets, TLC

\* ---- bounds of the model ------------------------------------------------
MaxSockets == 2
MaxRequestId == 2
MaxArm == 7
MaxSessions == 2
MaxRunId == 1
MaxTools == 1
MaxToolId == 1
MaxObservers == 2
MaxReconnects == 1
MaxToolSessions == 1
MaxHistory == 2
MaxToolCounter == 2
MaxPosts == 102
MaxWsSockets == 2
MaxWsConnects == 6
MaxBrowserPosts == 2
MaxCommandLength == 90

\* ---- constants of the program -------------------------------------------
initialReconnectDelay == 1000
maxReconnectDelay == 30000
defaultTickMs == 15000
wsInitialReconnectDelay == 1000
wsMaxReconnectDelay == 30000
maxBufferSize == 100

Sockets == 1..MaxSockets
RequestIds == 1..MaxRequestId
Sessions == 1..MaxSessions
Observers == 1..MaxObservers

ConnectionStates == {"connecting", "connected", "disconnected", "handshaking", "error"}

VARIABLES
  state,            \* this.state
  ws,               \* this.ws: a socket slot, 0 for null
  sock,             \* readyState of the socket in each slot, "NONE" for a free slot
  wire,             \* frames the gateway has received on each socket
  reconnectTimer,   \* this.reconnectTimer: a timer id, 0 for null
  timers,           \* the reconnect timeouts that are armed: set of [id, delay]
  reconnectDelay,   \* this.reconnectDelay
  tickTimer,        \* this.tickTimer: an interval id, 0 for null
  ticks,            \* the keepalive intervals that are running: set of [id, ms]
  requestId,        \* this.requestId
  pending,          \* keys of this.pendingRequests
  reqTimers,        \* the request timeouts that are armed (by request id)
  completions,      \* per request id, the settlements of its promise, in order
  agents,           \* EventTranslator.agents: per session key the TrackedAgent, or NoAgent
  sessionToId,      \* EventTranslator.sessionToId: per session key the id, 0 for no entry
  nextAgentId,      \* EventTranslator.nextAgentId
  toolIdCounter,    \* EventTranslator.toolIdCounter
  clients,          \* DashboardServer.clients: per observer socket its readyState,
                    \* "NONE" for a socket that is not in the set
  approvals,        \* the calls of resolveApproval that await their request: per
                    \* request id [agentId, approved], agentId 0 for none
  inbox,            \* per observer socket, the messages of the browser that have
                    \* arrived and whose 'message' handler has not run yet
  armCount,         \* history: reconnect timers armed since the last onConnected
  wanted,           \* history: connect() was called and disconnect() was not since
  last,             \* history: the entry point that ran last, and what it did
                    \* (of a frame it keeps the header and the session key)
  fmt,              \* a call of formatToolStatus: [toolName, input, status, done]
  wsClient,         \* the WebSocketClient of a browser: its fields, the readyState
                    \* of the sockets it made, its timeout, and history
  view              \* history, kept when view.on: what the observers were sent
                    \* (known, early) and the open tools an observer holds that
                    \* was sent every message of the translator (tools)

coreVars == <<state, ws, sock, wire, reconnectTimer, timers, reconnectDelay, tickTimer,
              ticks, requestId, pending, reqTimers, completions, agents, sessionToId,
              nextAgentId, toolIdCounter, clients,
              approvals, armCount, wanted, last, view, fmt>>

serverVars == <<coreVars, inbox>>

vars == <<serverVars, wsClient>>

Min(a, b) == IF a < b THEN a ELSE b

\* A handle that no live timer (or socket) of the set uses.
FreshId(used) == CHOOSE i \in 1..(Cardinality(used) + 1) : i \notin used

TimerIds(ts) == {t.id : t \in ts}

\* ---- inbound frames -----------------------------------------------------
\* kind "event": {type:'event', event, payload}; kind "res": {type:'res', id, ok,
\* payload:{type}}; kind "req": a well-formed frame of another type; kind
\* "malformed": raw data that JSON.parse rejects.
\* The payload of an event frame, as far as EventTranslator reads it: stream,
\* phase (data.phase, phase or type), sessionKey (0: none), runId (0: none),
\* toolId (0: none), toolName ("": none), error ("": none).
NoPayload == [stream |-> "", phase |-> "", sessionKey |-> 0, runId |-> 0,
              toolId |-> 0, toolName |-> "", error |-> ""]

NoFrame == [kind |-> "none", event |-> "", id |-> 0, ok |-> FALSE, ptype |-> "",
            payload |-> NoPayload]

\* The events of these frames carry nothing the translator reads (an
\* agent.stream of a stream other than lifecycle and tool).
EventFrames == {[kind |-> "event", event |-> e, id |-> 0, ok |-> FALSE, ptype |-> "",
                 payload |-> NoPayload] :
                  e \in {"connect.challenge", "agent.stream"}}

ResFrames == {[kind |-> "res", event |-> "", id |-> i, ok |-> o, ptype |-> p,
               payload |-> NoPayload] :
                  i \in RequestIds, o \in BOOLEAN, p \in {"hello-ok", "other"}}

OtherFrames == {[kind |-> k, event |-> "", id |-> 0, ok |-> FALSE, ptype |-> "",
                 payload |-> NoPayload] :
                  k \in {"req", "malformed"}}

\* agent.stream events of the lifecycle stream: a start with or without a
\* run id, an end, an error with or without a text.
LifecycleFrames ==
  {f \in {[kind |-> "event", event |-> "agent.stream", id |-> 0, ok |-> FALSE, ptype |-> "",
           payload |-> [stream |-> "lifecycle", phase |-> ph, sessionKey |-> k,
                        runId |-> r, toolId |-> 0, toolName |-> "", error |-> e]] :
             ph \in {"start", "end", "error"}, k \in 0..MaxSessions, r \in 0..MaxRunId,
             e \in {"", "boom"}} :
     /\ f.payload.phase # "start" => f.payload.runId = 0
     /\ f.payload.phase # "error" => f.payload.error = ""}

\* agent.stream events of the tool stream: a start with or without a tool
\* name, an end; each with or without a tool id.
ToolFrames ==
  {f \in {[kind |-> "event", event |-> "agent.stream", id |-> 0, ok |-> FALSE, ptype |-> "",
           payload |-> [stream |-> "tool", phase |-> ph, sessionKey |-> k, runId |-> 0,
                        toolId |-> t, toolName |-> n, error |-> ""]] :
             ph \in {"start", "end"}, k \in 0..MaxSessions, t \in 0..MaxToolId,
             n \in {"", "Bash"}} :
     f.payload.phase = "end" => f.payload.toolName = ""}

\* exec.approval.requested events.
ApprovalFrames ==
  {[kind |-> "event", event |-> "exec.approval.requested", id |-> 0, ok |-> FALSE,
    ptype |-> "",
    payload |-> [stream |-> "", phase |-> "", sessionKey |-> k, runId |-> 0,
                 toolId |-> 0, toolName |-> "", error |-> ""]] :
      k \in 0..MaxSessions}

Frames == EventFrames \cup ResFrames \cup OtherFrames

\* ---- the client record --------------------------------------------------
\* The fields of the object, the sockets and timers it has handles on, and the
\* log of one entry point: events emitted, frames sent, how the promise that
\* request() returned was settled at once.
Cur == [state |-> state, ws |-> ws, sock |-> sock, wire |-> wire,
        reconnectTimer |-> reconnectTimer, timers |-> timers,
        reconnectDelay |-> reconnectDelay, tickTimer |-> tickTimer, ticks |-> ticks,
        requestId |-> requestId, pending |-> pending, reqTimers |-> reqTimers,
        completions |-> completions,
        agents |-> agents, sessionToId |-> sessionToId, nextAgentId |-> nextAgentId,
        toolIdCounter |-> toolIdCounter, clients |-> clients,
        approvals |-> approvals, inbox |-> inbox,
        emitted |-> <<>>, sent |-> <<>>, armed |-> 0, connected |-> FALSE,
        callResult |-> "none",
        dash |-> <<>>, delivered |-> [o \in Observers |-> <<>>]]

emit(c, ev, arg) == [c EXCEPT !.emitted = Append(@, [ev |-> ev, arg |-> arg])]

\* ---- DashboardServer: fan-out --------------------------------------------
\* A dashboard message: type, agent id, tool id, the text it carries
\* (status, error or gateway state), and the agent ids of a roster.
Msg(type, id, toolId, arg) ==
  [type |-> type, id |-> id, toolId |-> toolId, arg |-> arg, agents |-> <<>>]

\* The existingAgents message for the agent ids ids.
Roster(ids) ==
  [type |-> "existingAgents", id |-> 0, toolId |-> 0, arg |-> "", agents |-> ids]

\* ws.send on the observer's socket.
send(c, o, msg) == [c EXCEPT !.delivered[o] = Append(@, msg)]

\* The loop of broadcast over the clients of the set ids, in insertion order
\* (the order does not show: each observer has its own socket).
\* Mutant of broadcastTo: the loop ends at the first socket that is not open.
RECURSIVE broadcastTo_StopsAtClosed(_, _, _)
RECURSIVE broadcastTo(_, _, _)
broadcastTo_StopsAtClosed(c, os, msg) ==
  IF os = {} THEN c
  ELSE LET o == CHOOSE x \in os : \A y \in os : x <= y
       IN  IF c.clients[o] = "OPEN"
             THEN broadcastTo_StopsAtClosed(send(c, o, msg), os \ {o}, msg)
             ELSE c

broadcastTo(c, os, msg) ==
  IF os = {} THEN c
  ELSE LET o == CHOOSE x \in os : \A y \in os : x <= y
       IN  broadcastTo(IF c.clients[o] = "OPEN" THEN send(c, o, msg) ELSE c, os \ {o}, msg)

broadcast(c, msg) == broadcastTo(c, {o \in Observers : c.clients[o] # "NONE"}, msg)

sendTo(c, o, msg) == IF c.clients[o] = "OPEN" THEN send(c, o, msg) ELSE c

\* ---- EventTranslator -----------------------------------------------------
\* emit('dashboardMessage', msg); its listener is DashboardServer.broadcast.
emitDashboard(c, msg) == broadcast([c EXCEPT !.dash = Append(@, msg)], msg)

\* Mutant of the listener on 'connectionState': the state handshaking is
\* not published.
onConnectionState_Quiet(c, s) ==
  IF s = "handshaking" THEN c ELSE emitDashboard(c, Msg("connectionStatus", 0, 0, s))

\* The listener EventTranslator puts on 'connectionState'.
onConnectionState(c, s) == emitDashboard(c, Msg("connectionStatus", 0, 0, s))

setState(c, s) == onConnectionState(emit([c EXCEPT !.state = s], "connectionState", s), s)

sendRaw(c, frame) ==
  IF c.ws # 0 /\ c.sock[c.ws] = "OPEN"
    THEN [c EXCEPT !.wire[c.ws] = @ \cup {frame}, !.sent = Append(@, frame)]
    ELSE c

\* ++this.requestId; the id returned is the new value of the field.
nextRequestId(c) == [c EXCEPT !.requestId = @ + 1]

sendConnectRequest(c) ==
  LET c1 == nextRequestId(c)
  IN  sendRaw(c1, [type |-> "req", id |-> c1.requestId, method |-> "connect"])

\* The promise of request id is settled.  A call of resolveApproval that
\* awaits it goes on: when the request succeeded and the answer was an
\* approval it emits agentToolPermissionClear, otherwise nothing.
settle(c, id, how) ==
  LET a  == c.approvals[id]
      c1 == [c EXCEPT !.completions[id] = Append(@, how),
                      !.approvals[id] = [agentId |-> 0, approved |-> FALSE]]
  IN  IF a.agentId # 0 /\ how = "resolved" /\ a.approved
        THEN emitDashboard(c1, Msg("agentToolPermissionClear", a.agentId, 0, ""))
        ELSE c1

\* request with the guard testing for disconnected only.
request_GuardDisconnectedOnly(c, method) ==
  IF c.state = "disconnected"
    THEN [c EXCEPT !.callResult = "notConnected"]
    ELSE LET c1 == nextRequestId(c)
             id == c1.requestId
             c2 == [c1 EXCEPT !.reqTimers = @ \cup {id}]
             c3 == [c2 EXCEPT !.pending = @ \cup {id}, !.callResult = "pending"]
         IN  sendRaw(c3, [type |-> "req", id |-> id, method |-> method])

request(c, method) ==
  IF c.state # "connected"
    THEN [c EXCEPT !.callResult = "notConnected"]
    ELSE LET c1 == nextRequestId(c)
             id == c1.requestId
             c2 == [c1 EXCEPT !.reqTimers = @ \cup {id}]
             c3 == [c2 EXCEPT !.pending = @ \cup {id}, !.callResult = "pending"]
         IN  sendRaw(c3, [type |-> "req", id |-> id, method |-> method])

\* The listener EventTranslator puts on 'connected': syncInitialState runs up
\* to its first await inside emit, which is the call of request.
syncInitialState(c) == request(c, "system-presence")

onConnected(c) ==
  LET c1 == [c EXCEPT !.reconnectDelay = initialReconnectDelay]
      c2 == setState(c1, "connected")
      t  == FreshId(TimerIds(c2.ticks))
      c3 == [c2 EXCEPT !.tickTimer = t, !.ticks = @ \cup {[id |-> t, ms |-> defaultTickMs]},
                       !.connected = TRUE]
  IN  syncInitialState(emit(c3, "connected", ""))

\* The value of agents for a session key without an entry.
NoAgent == [id |-> 0, status |-> "none", currentRunId |-> 0, toolHistory |-> <<>>]

\* Mutant of lifecycleStart: a new run keeps the tool history of the last.
lifecycleStart_KeepsHistory(c, p, k) ==
  LET known == c.sessionToId[k]
  IN  IF known = 0
        THEN LET id == c.nextAgentId
                 c1 == [c EXCEPT !.nextAgentId = @ + 1,
                                 !.sessionToId[k] = id,
                                 !.agents[k] = [id |-> id, status |-> "busy",
                                                currentRunId |-> p.runId,
                                                toolHistory |-> <<>>]]
                 c2 == emitDashboard(c1, Msg("agentCreated", id, 0, ""))
             IN  emitDashboard(c2, Msg("agentStatus", id, 0, "active"))
        ELSE LET c1 == [c EXCEPT !.agents[k].status = "busy",
                                 !.agents[k].currentRunId = p.runId]
             IN  emitDashboard(c1, Msg("agentStatus", known, 0, "active"))

\* Mutant of lifecycleStart: the status of a new agent is sent before the
\* agent is announced.
lifecycleStart_StatusFirst(c, p, k) ==
  LET known == c.sessionToId[k]
  IN  IF known = 0
        THEN LET id == c.nextAgentId
                 c1 == [c EXCEPT !.nextAgentId = @ + 1,
                                 !.sessionToId[k] = id,
                                 !.agents[k] = [id |-> id, status |-> "busy",
                                                currentRunId |-> p.runId,
                                                toolHistory |-> <<>>]]
                 c2 == emitDashboard(c1, Msg("agentStatus", id, 0, "active"))
             IN  emitDashboard(c2, Msg("agentCreated", id, 0, ""))
        ELSE LET c1 == [c EXCEPT !.agents[k].status = "busy",
                                 !.agents[k].currentRunId = p.runId,
                                 !.agents[k].toolHistory = <<>>]
             IN  emitDashboard(c1, Msg("agentStatus", known, 0, "active"))

\* handleLifecycleEvent, phase start, for the session key k.
lifecycleStart(c, p, k) ==
  LET known == c.sessionToId[k]
  IN  IF known = 0
        THEN LET id == c.nextAgentId
                 c1 == [c EXCEPT !.nextAgentId = @ + 1,
                                 !.sessionToId[k] = id,
                                 !.agents[k] = [id |-> id, status |-> "busy",
                                                currentRunId |-> p.runId,
                                                toolHistory |-> <<>>]]
                 c2 == emitDashboard(c1, Msg("agentCreated", id, 0, ""))
             IN  emitDashboard(c2, Msg("agentStatus", id, 0, "active"))
        ELSE LET c1 == IF c.agents[k] # NoAgent
                         THEN [c EXCEPT !.agents[k].status = "busy",
                                        !.agents[k].currentRunId = p.runId,
                                        !.agents[k].toolHistory = <<>>]
                         ELSE c
             IN  emitDashboard(c1, Msg("agentStatus", known, 0, "active"))

\* Mutant of lifecycleEnd: the end of a run takes an agent id.
lifecycleEnd_ConsumesId(c, p, k) ==
  LET known == c.sessionToId[k]
  IN  IF known = 0 THEN c
      ELSE LET c1 == [c EXCEPT !.agents[k].status = "idle",
                               !.agents[k].currentRunId = 0,
                               !.nextAgentId = @ + 1]
               c2 == emitDashboard(c1, Msg("agentToolsClear", known, 0, ""))
           IN  emitDashboard(c2, Msg("agentStatus", known, 0, "waiting"))

\* Mutant of lifecycleEnd: the run id outlives the run.
lifecycleEnd_KeepsRunId(c, p, k) ==
  LET known == c.sessionToId[k]
  IN  IF known = 0 THEN c
      ELSE LET c1 == [c EXCEPT !.agents[k].status = "idle"]
               c2 == emitDashboard(c1, Msg("agentToolsClear", known, 0, ""))
           IN  emitDashboard(c2, Msg("agentStatus", known, 0, "waiting"))

\* handleLifecycleEvent, phase end, for the session key k.
lifecycleEnd(c, p, k) ==
  LET known == c.sessionToId[k]
  IN  IF known = 0 THEN c
      ELSE LET c1 == IF c.agents[k] # NoAgent
                       THEN [c EXCEPT !.agents[k].status = "idle",
                                      !.agents[k].currentRunId = 0]
                       ELSE c
               c2 == emitDashboard(c1, Msg("agentToolsClear", known, 0, ""))
           IN  emitDashboard(c2, Msg("agentStatus", known, 0, "waiting"))

\* Mutant of lifecycleError: an agent that fails is forgotten.
lifecycleError_DropsAgent(c, p, k) ==
  LET known == c.sessionToId[k]
  IN  IF known = 0 THEN c
      ELSE LET c1 == [c EXCEPT !.agents[k] = NoAgent, !.sessionToId[k] = 0]
           IN  emitDashboard(c1, Msg("agentError", known, 0,
                                     IF p.error = "" THEN "Unknown error" ELSE p.error))

\* Mutant of lifecycleError: an error without a text is sent without one.
lifecycleError_NoDefault(c, p, k) ==
  LET known == c.sessionToId[k]
  IN  IF known = 0 THEN c
      ELSE LET c1 == [c EXCEPT !.agents[k].status = "error"]
           IN  emitDashboard(c1, Msg("agentError", known, 0, p.error))

\* handleLifecycleEvent, phase error, for the session key k.
lifecycleError(c, p, k) ==
  LET known == c.sessionToId[k]
  IN  IF known = 0 THEN c
      ELSE LET c1 == IF c.agents[k] # NoAgent
                       THEN [c EXCEPT !.agents[k].status = "error"]
                       ELSE c
           IN  emitDashboard(c1, Msg("agentError", known, 0,
                                     IF p.error = "" THEN "Unknown error" ELSE p.error))

handleLifecycleEvent(c, p) ==
  IF p.sessionKey = 0 THEN c
  ELSE IF p.phase = "start" THEN lifecycleStart(c, p, p.sessionKey)
  ELSE IF p.phase = "end" THEN lifecycleEnd(c, p, p.sessionKey)
  ELSE IF p.phase = "error" THEN lifecycleError(c, p, p.sessionKey)
  ELSE c

\* The index of the first entry of the history h with tool id t, 0 if none
\* (Array.prototype.find).
FindTool(h, t) ==
  IF \E i \in 1..Len(h) : h[i].toolId = t
    THEN CHOOSE i \in 1..Len(h) : h[i].toolId = t /\ \A j \in 1..(i - 1) : h[j].toolId # t
    ELSE 0

\* Mutant of handleToolEvent: a tool that ends leaves the history.
handleToolEvent_EndRemoves(c, p) ==
  LET k  == p.sessionKey
      id == IF k # 0 THEN c.sessionToId[k] ELSE 0
  IN
  IF id = 0 THEN c
  ELSE LET toolName == IF p.toolName = "" THEN "unknown" ELSE p.toolName
           c0 == IF p.toolId # 0 THEN c ELSE [c EXCEPT !.toolIdCounter = @ + 1]
           toolId == IF p.toolId # 0 THEN p.toolId ELSE c0.toolIdCounter
       IN
    IF p.phase = "start" THEN
      LET c1 == [c0 EXCEPT !.agents[k].toolHistory =
                             Append(@, [toolId |-> toolId, name |-> toolName,
                                        done |-> FALSE])]
      IN  emitDashboard(c1, Msg("agentToolStart", id, toolId, ""))
    ELSE IF p.phase = "end" THEN
      LET h  == c0.agents[k].toolHistory
          i  == FindTool(h, toolId)
          c1 == IF i # 0
                  THEN [c0 EXCEPT !.agents[k].toolHistory =
                                    SubSeq(h, 1, i - 1) \o SubSeq(h, i + 1, Len(h))]
                  ELSE c0
      IN  emitDashboard(c1, Msg("agentToolDone", id, toolId, ""))
    ELSE c0

handleToolEvent(c, p) ==
  LET k  == p.sessionKey
      id == IF k # 0 THEN c.sessionToId[k] ELSE 0
  IN
  IF id = 0 THEN c
  ELSE LET toolName == IF p.toolName = "" THEN "unknown" ELSE p.toolName
           c0 == IF p.toolId # 0 THEN c ELSE [c EXCEPT !.toolIdCounter = @ + 1]
           toolId == IF p.toolId # 0 THEN p.toolId ELSE c0.toolIdCounter
       IN
    IF p.phase = "start" THEN
      LET c1 == IF c0.agents[k] # NoAgent
                  THEN [c0 EXCEPT !.agents[k].toolHistory =
                                    Append(@, [toolId |-> toolId, name |-> toolName,
                                               done |-> FALSE])]
                  ELSE c0
      IN  emitDashboard(c1, Msg("agentToolStart", id, toolId, ""))
    ELSE IF p.phase = "end" THEN
      LET i  == FindTool(c0.agents[k].toolHistory, toolId)
          c1 == IF c0.agents[k] # NoAgent /\ i # 0
                  THEN [c0 EXCEPT !.agents[k].toolHistory[i].done = TRUE]
                  ELSE c0
      IN  emitDashboard(c1, Msg("agentToolDone", id, toolId, ""))
    ELSE c0

\* Mutant of handleApprovalRequest: a request for a session without an id
\* is announced all the same.
handleApprovalRequest_UnknownAnnounced(c, p) ==
  LET k  == p.sessionKey
      id == IF k # 0 THEN c.sessionToId[k] ELSE 0
  IN  IF k = 0 THEN c
      ELSE LET c1 == IF c.agents[k] # NoAgent
                       THEN [c EXCEPT !.agents[k].status = "waiting_approval"]
                       ELSE c
           IN  emitDashboard(c1, Msg("agentToolPermission", id, 0, ""))

\* Mutant of handleApprovalRequest: the agent's status is left as it was.
handleApprovalRequest_KeepsStatus(c, p) ==
  LET k  == p.sessionKey
      id == IF k # 0 THEN c.sessionToId[k] ELSE 0
  IN  IF id = 0 THEN c
      ELSE emitDashboard(c, Msg("agentToolPermission", id, 0, ""))

handleApprovalRequest(c, p) ==
  LET k  == p.sessionKey
      id == IF k # 0 THEN c.sessionToId[k] ELSE 0
  IN
  IF id = 0 THEN c
  ELSE LET c1 == IF c.agents[k] # NoAgent
                   THEN [c EXCEPT !.agents[k].status = "waiting_approval"]
                   ELSE c
       IN  emitDashboard(c1, Msg("agentToolPermission", id, 0, ""))

\* resolveApproval up to its await: the request is made for the session of
\* the agent, if there is one; a request that is refused at once is caught.
resolveApproval(c, agentId, approved) ==
  IF \A k \in Sessions : c.sessionToId[k] = 0 \/ c.sessionToId[k] # agentId
    THEN c
    ELSE LET c1 == request(c, "exec.approval.resolve")
         IN  IF c1.callResult = "pending"
               THEN [c1 EXCEPT !.approvals[c1.requestId] =
                                  [agentId |-> agentId, approved |-> approved]]
               ELSE c1

handleGatewayEvent(c, event, p) ==
  IF event = "agent.stream"
    THEN IF p.stream = "lifecycle" THEN handleLifecycleEvent(c, p)
         ELSE IF p.stream = "tool" THEN handleToolEvent(c, p)
         ELSE c
    ELSE IF event = "exec.approval.requested" THEN handleApprovalRequest(c, p)
    ELSE c

\* ---- DashboardServer: snapshot and browser messages ------------------------
\* The asset messages of the snapshot, in the order they are sent.  Each is
\* sent when its loader finds the asset.
AssetTypes == <<"characterSpritesLoaded", "floorTilesLoaded", "wallTilesLoaded",
                "furnitureAssetsLoaded">>

\* The session keys of the agents in the order of agents.values():
\* insertion order, which is the order of the ids.
RosterKeys(c) ==
  [i \in 1..(c.nextAgentId - 1) |-> CHOOSE k \in Sessions : c.agents[k].id = i]

\* The sends for the assets of the set found, from the i-th asset type on.
RECURSIVE sendAssets(_, _, _, _)
sendAssets(c, o, found, i) ==
  IF i > Len(AssetTypes) THEN c
  ELSE sendAssets(IF AssetTypes[i] \in found
                    THEN sendTo(c, o, Msg(AssetTypes[i], 0, 0, ""))
                    ELSE c,
                  o, found, i + 1)

\* Mutant of replayTools: the entries that are done are replayed too.
RECURSIVE replayTools_DoneToo(_, _, _, _, _)
replayTools_DoneToo(c, o, id, h, i) ==
  IF i > Len(h) THEN c
  ELSE replayTools_DoneToo(sendTo(c, o, Msg("agentToolStart", id, h[i].toolId, "")),
                           o, id, h, i + 1)

\* The loop over the tool history h of the agent id, from the i-th entry on.
RECURSIVE replayTools(_, _, _, _, _)
replayTools(c, o, id, h, i) ==
  IF i > Len(h) THEN c
  ELSE replayTools(IF ~h[i].done
                     THEN sendTo(c, o, Msg("agentToolStart", id, h[i].toolId, ""))
                     ELSE c,
                   o, id, h, i + 1)

\* The loop over the agents of the sequence of keys ks, from the i-th on.
RECURSIVE replayAgents(_, _, _, _)
replayAgents(c, o, ks, i) ==
  IF i > Len(ks) THEN c
  ELSE LET a == c.agents[ks[i]]
           c1 == IF a.status = "busy"
                   THEN replayTools(sendTo(c, o, Msg("agentStatus", a.id, 0, "active")),
                                    o, a.id, a.toolHistory, 1)
                 ELSE IF a.status = "error"
                   THEN sendTo(c, o, Msg("agentStatus", a.id, 0, "error"))
                 ELSE c
       IN  replayAgents(c1, o, ks, i + 1)

\* Mutant of sendInitialState: the connection status is sent before the
\* agents are replayed.
sendInitialState_StatusEarly(c, o, found) ==
  LET ks == RosterKeys(c)
      c1 == sendAssets(c, o, found, 1)
      c2 == sendTo(c1, o, Msg("settingsLoaded", 0, 0, ""))
      c3 == sendTo(c2, o, Roster([i \in 1..Len(ks) |-> c.agents[ks[i]].id]))
      c4 == sendTo(c3, o, Msg("layoutLoaded", 0, 0, ""))
      c5 == sendTo(c4, o, Msg("connectionStatus", 0, 0, c.state))
  IN  replayAgents(c5, o, ks, 1)

\* sendInitialState(ws) for the observer o, the loaders finding the assets
\* of the set found.
sendInitialState(c, o, found) ==
  LET ks == RosterKeys(c)
      c1 == sendAssets(c, o, found, 1)
      c2 == sendTo(c1, o, Msg("settingsLoaded", 0, 0, ""))
      c3 == sendTo(c2, o, Roster([i \in 1..Len(ks) |-> c.agents[ks[i]].id]))
      c4 == sendTo(c3, o, Msg("layoutLoaded", 0, 0, ""))
      c5 == replayAgents(c4, o, ks, 1)
  IN  sendTo(c5, o, Msg("connectionStatus", 0, 0, c.state))

\* A message of a browser: [type, id, approved].  saveLayout writes a file,
\* saveAgentSeats and setSoundEnabled do nothing; a message that does not
\* parse is ignored.
BrowserMessages ==
  {[type |-> "webviewReady", id |-> 0, approved |-> FALSE]} \cup
  {[type |-> "approveExec", id |-> i, approved |-> a] :
     i \in 0..MaxSessions, a \in BOOLEAN} \cup
  {[type |-> t, id |-> 0, approved |-> FALSE] :
     t \in {"saveLayout", "saveAgentSeats", "setSoundEnabled", "malformed"}}

handleBrowserMessage(c, o, m, found) ==
  IF m.type = "webviewReady" THEN sendInitialState(c, o, found)
  ELSE IF m.type = "approveExec" THEN resolveApproval(c, m.id, m.approved)
  ELSE c

handleFrame(c, f) ==
  IF f.kind = "event"
    THEN IF f.event = "connect.challenge"
           THEN sendConnectRequest(c)
           ELSE handleGatewayEvent(emit(c, "gatewayEvent", f.event), f.event, f.payload)
    ELSE IF f.kind = "res"
      THEN IF f.id \in c.pending
             THEN LET c1 == [c EXCEPT !.reqTimers = @ \ {f.id}, !.pending = @ \ {f.id}]
                  IN  IF f.ok
                        THEN settle(IF f.ptype = "hello-ok" THEN onConnected(c1) ELSE c1,
                                    f.id, "resolved")
                        ELSE settle(c1, f.id, "failed")
             ELSE c
      ELSE c

\* The 'message' handler: a parse error is swallowed.
onMessage(c, f) == IF f.kind = "malformed" THEN c ELSE handleFrame(c, f)

\* scheduleReconnect without the guard on an outstanding timer.
scheduleReconnect_NoGuard(c) ==
  LET t == FreshId(TimerIds(c.timers))
  IN  [c EXCEPT !.reconnectTimer = t,
                !.timers = @ \cup {[id |-> t, delay |-> c.reconnectDelay]},
                !.reconnectDelay = Min(c.reconnectDelay * 2, maxReconnectDelay),
                !.armed = @ + 1]

\* scheduleReconnect doubling the delay before it arms the timer.
scheduleReconnect_DoubleFirst(c) ==
  IF c.reconnectTimer # 0
    THEN c
    ELSE LET t == FreshId(TimerIds(c.timers))
             d == Min(c.reconnectDelay * 2, maxReconnectDelay)
         IN  [c EXCEPT !.reconnectTimer = t,
                       !.timers = @ \cup {[id |-> t, delay |-> d]},
                       !.reconnectDelay = d,
                       !.armed = @ + 1]

scheduleReconnect(c) ==
  IF c.reconnectTimer # 0
    THEN c
    ELSE LET t == FreshId(TimerIds(c.timers))
         IN  [c EXCEPT !.reconnectTimer = t,
                       !.timers = @ \cup {[id |-> t, delay |-> c.reconnectDelay]},
                       !.reconnectDelay = Min(c.reconnectDelay * 2, maxReconnectDelay),
                       !.armed = @ + 1]

RECURSIVE rejectAll(_, _)
rejectAll(c, ids) ==
  IF ids = {} THEN c
  ELSE LET id == CHOOSE i \in ids : \A j \in ids : i <= j
       IN  rejectAll(settle([c EXCEPT !.reqTimers = @ \ {id}], id, "closed"), ids \ {id})

cleanup(c) ==
  LET c1 == IF c.tickTimer # 0
              THEN [c EXCEPT !.ticks = {t \in @ : t.id # c.tickTimer}, !.tickTimer = 0]
              ELSE c
      c2 == rejectAll(c1, c1.pending)
  IN  [c2 EXCEPT !.pending = {}, !.ws = 0]

\* connect giving up when the constructor raises.
connect_NoRetry(c, throws) ==
  IF c.ws # 0 /\ c.sock[c.ws] \in {"OPEN", "CONNECTING"}
    THEN c
    ELSE LET c1 == setState(c, "connecting")
         IN  IF throws
               THEN setState(c1, "error")
               ELSE LET s == FreshId({x \in Sockets : c1.sock[x] # "NONE"})
                    IN  [c1 EXCEPT !.ws = s, !.sock[s] = "CONNECTING", !.wire[s] = {}]

\* connect with the guard testing for an open socket only.
connect_GuardOpenOnly(c, throws) ==
  IF c.ws # 0 /\ c.sock[c.ws] = "OPEN"
    THEN c
    ELSE LET c1 == setState(c, "connecting")
         IN  IF throws
               THEN scheduleReconnect(setState(c1, "error"))
               ELSE LET s == FreshId({x \in Sockets : c1.sock[x] # "NONE"})
                    IN  [c1 EXCEPT !.ws = s, !.sock[s] = "CONNECTING", !.wire[s] = {}]

\* throws: new WebSocket(url) raises.
connect(c, throws) ==
  IF c.ws # 0 /\ c.sock[c.ws] \in {"OPEN", "CONNECTING"}
    THEN c
    ELSE LET c1 == setState(c, "connecting")
         IN  IF throws
               THEN scheduleReconnect(setState(c1, "error"))
               ELSE LET s == FreshId({x \in Sockets : c1.sock[x] # "NONE"})
                    IN  [c1 EXCEPT !.ws = s, !.sock[s] = "CONNECTING", !.wire[s] = {}]

\* disconnect leaving the reconnect timer armed.
disconnect_KeepTimer(c) ==
  LET c2 == cleanup(c)
      c3 == IF c2.ws # 0
              THEN [c2 EXCEPT !.sock[c2.ws] = "CLOSING", !.ws = 0]
              ELSE c2
  IN  setState(c3, "disconnected")

disconnect(c) ==
  LET c1 == IF c.reconnectTimer # 0
              THEN [c EXCEPT !.timers = {t \in @ : t.id # c.reconnectTimer},
                             !.reconnectTimer = 0]
              ELSE c
      c2 == cleanup(c1)
      c3 == IF c2.ws # 0
              THEN [c2 EXCEPT !.sock[c2.ws] = "CLOSING", !.ws = 0]
              ELSE c2
  IN  setState(c3, "disconnected")

\* The handlers connect() puts on the socket it creates.  The 'error' handler
\* only logs and is no action.
onOpen(c) == setState(c, "handshaking")

\* The close handler without the call of scheduleReconnect.
onClose_NoReconnect(c) == setState(cleanup(c), "disconnected")

onClose(c) == scheduleReconnect(setState(cleanup(c), "disconnected"))

\* The callback of the reconnect timeout.
onReconnectTimer(c, throws) == connect([c EXCEPT !.reconnectTimer = 0], throws)

\* ---- the state machine --------------------------------------------------
\* ---- formatToolStatus ---------------------------------------------------------
\* A string is the sequence of its code points; Absent is a property of the
\* input that is missing or is not a string.
Absent == <<-1>>
Ellipsis == 8230
Slash == 47

Name_Read == <<82, 101, 97, 100>>
Name_Edit == <<69, 100, 105, 116>>
Name_Write == <<87, 114, 105, 116, 101>>
Name_Bash == <<66, 97, 115, 104>>
Name_Glob == <<71, 108, 111, 98>>
Name_Grep == <<71, 114, 101, 112>>
Name_WebFetch == <<87, 101, 98, 70, 101, 116, 99, 104>>
Name_WebSearch == <<87, 101, 98, 83, 101, 97, 114, 99, 104>>
Name_Task == <<84, 97, 115, 107>>
Name_browser_navigate == <<98, 114, 111, 119, 115, 101, 114, 95, 110, 97, 118, 105, 103, 97, 116, 101>>
Name_browser_click == <<98, 114, 111, 119, 115, 101, 114, 95, 99, 108, 105, 99, 107>>
Name_browser_type == <<98, 114, 111, 119, 115, 101, 114, 95, 116, 121, 112, 101>>
Name_browser_snapshot == <<98, 114, 111, 119, 115, 101, 114, 95, 115, 110, 97, 112, 115, 104, 111, 116>>
Name_Deploy == <<68, 101, 112, 108, 111, 121>>

KnownToolNames == {Name_Read, Name_Edit, Name_Write, Name_Bash, Name_Glob, Name_Grep, Name_WebFetch, Name_WebSearch, Name_Task, Name_browser_navigate, Name_browser_click, Name_browser_type, Name_browser_snapshot}

\* s.slice(0, n)
Slice(s, n) == SubSeq(s, 1, Min(n, Len(s)))

\* The index of the last slash of s, 0 for none.
LastSlash(s) ==
  IF \E i \in 1..Len(s) : s[i] = Slash
    THEN CHOOSE i \in 1..Len(s) : s[i] = Slash /\ \A j \in (i + 1)..Len(s) : s[j] # Slash
    ELSE 0

\* basename(p): '' if p is not a string, else p.split('/').pop().
basename(p) ==
  IF p = Absent THEN <<>> ELSE SubSeq(p, LastSlash(p) + 1, Len(p))

\* Mutant of formatToolStatus: a long command is cut without a marker.
formatToolStatus_NoMarker(toolName, input) ==
  IF toolName = Name_Bash THEN
    LET cmd == IF input.command = Absent THEN <<>> ELSE input.command
    IN  <<82, 117, 110, 110, 105, 110, 103, 58, 32>> \o Slice(cmd, 60)
  ELSE <<85, 115, 105, 110, 103, 32>> \o toolName

formatToolStatus(toolName, input) ==
  IF toolName = Name_Read THEN <<82, 101, 97, 100, 105, 110, 103, 32>> \o basename(input.file_path)
  ELSE IF toolName = Name_Edit THEN <<69, 100, 105, 116, 105, 110, 103, 32>> \o basename(input.file_path)
  ELSE IF toolName = Name_Write THEN <<87, 114, 105, 116, 105, 110, 103, 32>> \o basename(input.file_path)
  ELSE IF toolName = Name_Bash THEN
    LET cmd == IF input.command = Absent THEN <<>> ELSE input.command
    IN  <<82, 117, 110, 110, 105, 110, 103, 58, 32>> \o (IF Len(cmd) > 60 THEN Append(Slice(cmd, 60), Ellipsis) ELSE cmd)
  ELSE IF toolName = Name_Glob THEN <<83, 101, 97, 114, 99, 104, 105, 110, 103, 32, 102, 105, 108, 101, 115>>
  ELSE IF toolName = Name_Grep THEN <<83, 101, 97, 114, 99, 104, 105, 110, 103, 32, 99, 111, 100, 101>>
  ELSE IF toolName = Name_WebFetch THEN <<70, 101, 116, 99, 104, 105, 110, 103, 32, 119, 101, 98, 32, 99, 111, 110, 116, 101, 110, 116>>
  ELSE IF toolName = Name_WebSearch THEN <<83, 101, 97, 114, 99, 104, 105, 110, 103, 32, 116, 104, 101, 32, 119, 101, 98>>
  ELSE IF toolName = Name_Task THEN
    LET desc == IF input.description = Absent THEN <<>> ELSE input.description
    IN  IF desc # <<>>
          THEN <<83, 117, 98, 116, 97, 115, 107, 58, 32>> \o (IF Len(desc) > 80 THEN Append(Slice(desc, 80), Ellipsis) ELSE desc)
          ELSE <<82, 117, 110, 110, 105, 110, 103, 32, 115, 117, 98, 116, 97, 115, 107>>
  ELSE IF toolName = Name_browser_navigate THEN <<79, 112, 101, 110, 105, 110, 103, 32, 98, 114, 111, 119, 115, 101, 114>>
  ELSE IF toolName = Name_browser_click THEN <<67, 108, 105, 99, 107, 105, 110, 103, 32, 105, 110, 32, 98, 114, 111, 119, 115, 101, 114>>
  ELSE IF toolName = Name_browser_type THEN <<84, 121, 112, 105, 110, 103, 32, 105, 110, 32, 98, 114, 111, 119, 115, 101, 114>>
  ELSE IF toolName = Name_browser_snapshot THEN <<82, 101, 97, 100, 105, 110, 103, 32, 98, 114, 111, 119, 115, 101, 114, 32, 112, 97, 103, 101>>
  ELSE <<85, 115, 105, 110, 103, 32>> \o toolName

\* The tool names of the calls: the known ones, one that is not known, and
\* the empty name.
ToolNames == KnownToolNames \cup {Name_Deploy, <<>>}

\* A string of n letters, and a string of n ellipsis characters.
Letters(n) == [i \in 1..n |-> 97 + (i % 26)]
Ellipses(n) == [i \in 1..n |-> Ellipsis]

\* The inputs of the calls: one property is a string, the others are missing.
NoInput == [command |-> Absent, file_path |-> Absent, description |-> Absent]
ToolInputs ==
  {NoInput} \cup
  {[NoInput EXCEPT !.command = t] :
     t \in {Letters(n) : n \in 0..MaxCommandLength} \cup
           {Ellipses(n) : n \in 0..MaxCommandLength}} \cup
  {[NoInput EXCEPT !.description = Letters(n)] : n \in 0..MaxCommandLength} \cup
  {[NoInput EXCEPT !.file_path = t] :
     t \in {<<47, 115, 114, 99, 47, 97, 46, 116, 115>>, <<97, 46, 116, 115>>, <<115, 114, 99, 47>>, <<>>}}

\* No call of formatToolStatus.
NoFormat == [toolName |-> <<>>, input |-> NoInput, status |-> <<>>, done |-> FALSE]

\* ---- WebSocketClient (the browser's side, wsClient.ts) -----------------------
WsSockets == 1..MaxWsSockets

\* The message of the n-th call of postMessage is n; webviewReady is 0.
WebviewReady == 0

\* The fields after the initialisers, before the constructor's body.
\*   ws              this.ws: a socket slot, 0 for null
\*   sock            readyState of the socket in each slot, "NONE" for a free slot
\*   reconnectTimer  this.reconnectTimer: the id of a timeout, 0 for null
\*   timeouts        the timeouts that are pending: set of [id, delay]
\*   timerIds        the calls of setTimeout so far (the next id is one more)
\*   armCount        history: timeouts set since the socket last opened
\*   born            the constructor ran
\*   maxSent         history: the last posted message a socket has taken
\*   posted, connects, disposed, op, sent, lost, threw, notified: history;
\*   sent, lost, threw and notified are those of the entry point that ran last
NewWebSocketClient ==
  [ws |-> 0, sock |-> [s \in WsSockets |-> "NONE"], reconnectTimer |-> 0,
   timeouts |-> {}, timerIds |-> 0, armCount |-> 0,
   reconnectDelay |-> wsInitialReconnectDelay, state |-> "disconnected",
   sendBuffer |-> <<>>, born |-> FALSE, posted |-> 0, maxSent |-> 0, connects |-> 0,
   disposed |-> FALSE, op |-> "init",
   sent |-> <<>>, lost |-> <<>>, threw |-> FALSE, notified |-> <<>>]

\* The client at the start of an entry point.
WsCur == [wsClient EXCEPT !.sent = <<>>, !.lost = <<>>, !.threw = FALSE, !.notified = <<>>]

wsSetState(w, st) == [w EXCEPT !.state = st, !.notified = Append(@, st)]

\* this.ws?.send(msg) / this.ws.send(msg): nothing for null; a socket that
\* is open takes the message; one that is connecting throws; one that is
\* closing or closed discards it.
wsSend(w, msg) ==
  IF w.ws = 0 THEN w
  ELSE IF w.sock[w.ws] = "OPEN"
    THEN [w EXCEPT !.sent = Append(@, [sock |-> w.ws, msg |-> msg]),
                   !.maxSent = IF msg > @ THEN msg ELSE @]
  ELSE IF w.sock[w.ws] = "CONNECTING" THEN [w EXCEPT !.threw = TRUE]
  ELSE [w EXCEPT !.lost = Append(@, msg)]

\* Mutant of wsScheduleReconnect: the delay doubles without a ceiling.
wsScheduleReconnect_NoCeiling(w) ==
  IF w.reconnectTimer # 0 THEN w
  ELSE LET w1 == wsSetState(w, "reconnecting")
       IN  [w1 EXCEPT !.reconnectTimer = w.timerIds + 1,
                      !.timerIds = @ + 1,
                      !.timeouts = @ \cup {[id |-> w.timerIds + 1, delay |-> w.reconnectDelay]},
                      !.armCount = @ + 1,
                      !.reconnectDelay = w.reconnectDelay * 2]

\* scheduleReconnect()
wsScheduleReconnect(w) ==
  IF w.reconnectTimer # 0 THEN w
  ELSE LET w1 == wsSetState(w, "reconnecting")
       IN  [w1 EXCEPT !.reconnectTimer = w.timerIds + 1,
                      !.timerIds = @ + 1,
                      !.timeouts = @ \cup {[id |-> w.timerIds + 1, delay |-> w.reconnectDelay]},
                      !.armCount = @ + 1,
                      !.reconnectDelay = Min(w.reconnectDelay * 2, wsMaxReconnectDelay)]

\* The lowest free socket slot, 0 for none.
WsFreeSlot(w) ==
  IF \E s \in WsSockets : w.sock[s] = "NONE"
    THEN CHOOSE s \in WsSockets : w.sock[s] = "NONE" /\ \A t \in WsSockets : w.sock[t] = "NONE" => s <= t
    ELSE 0

\* connect(); throws: new WebSocket(url) throws.
wsConnect(w, throws) ==
  IF w.ws # 0 /\ w.sock[w.ws] \in {"OPEN", "CONNECTING"} THEN w
  ELSE LET w1 == [wsSetState(w, "connecting") EXCEPT !.connects = @ + 1]
       IN  IF throws THEN wsScheduleReconnect(wsSetState(w1, "disconnected"))
           ELSE [w1 EXCEPT !.ws = WsFreeSlot(w), !.sock[WsFreeSlot(w)] = "CONNECTING"]

\* Mutant of wsPostMessage: a full buffer refuses the new message.
wsPostMessage_DropsNewest(w, msg) ==
  IF w.ws # 0 /\ w.sock[w.ws] = "OPEN" THEN wsSend(w, msg)
  ELSE IF Len(w.sendBuffer) >= maxBufferSize THEN w
  ELSE [w EXCEPT !.sendBuffer = Append(@, msg)]

\* postMessage(msg)
wsPostMessage(w, msg) ==
  IF w.ws # 0 /\ w.sock[w.ws] = "OPEN" THEN wsSend(w, msg)
  ELSE LET b == Append(w.sendBuffer, msg)
       IN  [w EXCEPT !.sendBuffer = IF Len(b) > maxBufferSize THEN Tail(b) ELSE b]

\* The loop of onopen over the buffer b, from the i-th message on.
RECURSIVE wsFlush(_, _, _)
wsFlush(w, b, i) ==
  IF i > Len(b) \/ w.threw THEN w
  ELSE wsFlush(wsSend(w, b[i]), b, i + 1)

\* Mutant of wsOnOpen: the buffer is not emptied after the flush.
wsOnOpen_KeepsBuffer(w, s) ==
  LET w1 == [wsSetState(w, "connected") EXCEPT !.reconnectDelay = wsInitialReconnectDelay,
                                               !.armCount = 0]
      w2 == wsFlush(w1, w1.sendBuffer, 1)
  IN  IF w2.threw THEN w2
      ELSE wsPostMessage(w2, WebviewReady)

\* this.ws.onopen of the socket s.
wsOnOpen(w, s) ==
  LET w1 == [wsSetState(w, "connected") EXCEPT !.reconnectDelay = wsInitialReconnectDelay,
                                               !.armCount = 0]
      w2 == wsFlush(w1, w1.sendBuffer, 1)
  IN  IF w2.threw THEN w2
      ELSE wsPostMessage([w2 EXCEPT !.sendBuffer = <<>>], WebviewReady)

\* this.ws.onclose of the socket s.
wsOnClose(w, s) ==
  wsScheduleReconnect(wsSetState([w EXCEPT !.ws = 0], "disconnected"))

\* The callback of the reconnect timeout t.
wsOnReconnectTimer(w, t, throws) ==
  wsConnect([w EXCEPT !.reconnectTimer = 0, !.timeouts = @ \ {t}], throws)

\* dispose(): clearTimeout leaves the handle in this.reconnectTimer.
wsDispose(w) ==
  LET w1 == IF w.reconnectTimer # 0
              THEN [w EXCEPT !.timeouts = {t \in @ : t.id # w.reconnectTimer}]
              ELSE w
  IN  IF w1.ws # 0 /\ w1.sock[w1.ws] \in {"CONNECTING", "OPEN"}
        THEN [w1 EXCEPT !.sock[w1.ws] = "CLOSING"]
        ELSE w1

\* ---- What the observers were sent ------------------------------------------
\* The messages about an agent that are not the announcement of the agent.
DeltaTypes == {"agentStatus", "agentToolStart", "agentToolDone", "agentToolsClear",
               "agentToolPermission", "agentError"}

\* The view that is not kept, and the view at the start when it is kept.
NoView == [on |-> FALSE, known |-> [o \in Observers |-> {}],
           early |-> [o \in Observers |-> FALSE], tools |-> [id \in Sessions |-> {}],
           replayed |-> [o \in Observers |-> FALSE],
           gateway |-> [o \in Observers |-> "none"]]
FreshView == [NoView EXCEPT !.on = TRUE]

\* An observer that knows the agents kn is sent the messages d from the i-th
\* on: the agents it knows then (an existingAgents roster and an agentCreated
\* tell it of agents), and whether a message of DeltaTypes was about an agent
\* it did not know at that point.
RECURSIVE ObserveKnown(_, _, _, _)
ObserveKnown(kn, early, d, i) ==
  IF i > Len(d) THEN [known |-> kn, early |-> early]
  ELSE IF d[i].type = "existingAgents"
    THEN ObserveKnown(kn \cup {d[i].agents[n] : n \in 1..Len(d[i].agents)}, early, d, i + 1)
  ELSE IF d[i].type = "agentCreated"
    THEN ObserveKnown(kn \cup {d[i].id}, early, d, i + 1)
  ELSE ObserveKnown(kn, early \/ (d[i].type \in DeltaTypes /\ d[i].id \notin kn), d, i + 1)

\* The open tools per agent of an observer that holds t and applies the
\* messages d from the i-th on: agentToolStart adds, agentToolDone removes,
\* agentToolsClear empties.
RECURSIVE ObserveTools(_, _, _)
ObserveTools(t, d, i) ==
  IF i > Len(d) THEN t
  ELSE IF d[i].type = "agentToolStart"
    THEN ObserveTools([t EXCEPT ![d[i].id] = @ \cup {d[i].toolId}], d, i + 1)
  ELSE IF d[i].type = "agentToolDone"
    THEN ObserveTools([t EXCEPT ![d[i].id] = @ \ {d[i].toolId}], d, i + 1)
  ELSE IF d[i].type = "agentToolsClear"
    THEN ObserveTools([t EXCEPT ![d[i].id] = {}], d, i + 1)
  ELSE ObserveTools(t, d, i + 1)

\* The gateway state an observer holds that held g and is sent the messages
\* d from the i-th on: the one of the last connectionStatus.
RECURSIVE ObserveGateway(_, _, _)
ObserveGateway(g, d, i) ==
  IF i > Len(d) THEN g
  ELSE ObserveGateway(IF d[i].type = "connectionStatus" THEN d[i].arg ELSE g, d, i + 1)

\* The messages d hold a snapshot: sendInitialState always sends
\* settingsLoaded, and nothing else does.
HasSnapshot(d) == \E i \in 1..Len(d) : d[i].type = "settingsLoaded"

\* The view after an entry point that led to c.  An observer whose socket
\* left the set of clients is forgotten: the next one in its place is new.
Observe(v, c) ==
  IF ~v.on THEN v
  ELSE LET ok(o) == ObserveKnown(v.known[o], FALSE, c.delivered[o], 1)
       IN  [on |-> TRUE,
            known |-> [o \in Observers |->
                        IF c.clients[o] = "NONE" THEN {} ELSE ok(o).known],
            early |-> [o \in Observers |-> ok(o).early],
            tools |-> ObserveTools(v.tools, c.dash, 1),
            replayed |-> [o \in Observers |->
                           /\ c.clients[o] # "NONE"
                           /\ v.replayed[o] \/ HasSnapshot(c.delivered[o])],
            gateway |-> [o \in Observers |->
                          IF c.clients[o] = "NONE" THEN "none"
                          ELSE ObserveGateway(v.gateway[o], c.delivered[o], 1)]]

Pre == [state |-> state, ws |-> ws, sock |-> sock,
        reconnectTimer |-> reconnectTimer, timers |-> timers,
        reconnectDelay |-> reconnectDelay, pending |-> pending, reqTimers |-> reqTimers,
        requestId |-> requestId]

\* The state after an entry point that took the client from Cur to c.
Apply(c, op, s, f, throws) ==
  /\ state' = c.state
  /\ ws' = c.ws
  /\ sock' = c.sock
  /\ wire' = c.wire
  /\ reconnectTimer' = c.reconnectTimer
  /\ timers' = c.timers
  /\ reconnectDelay' = c.reconnectDelay
  /\ tickTimer' = c.tickTimer
  /\ ticks' = c.ticks
  /\ requestId' = c.requestId
  /\ pending' = c.pending
  /\ reqTimers' = c.reqTimers
  /\ completions' = c.completions
  /\ agents' = c.agents
  /\ sessionToId' = c.sessionToId
  /\ nextAgentId' = c.nextAgentId
  /\ toolIdCounter' = c.toolIdCounter
  /\ clients' = c.clients
  /\ approvals' = c.approvals
  /\ inbox' = c.inbox
  /\ view' = Observe(view, c)
  /\ wsClient' = wsClient
  /\ fmt' = fmt
  /\ armCount' = Min((IF c.connected THEN 0 ELSE armCount) + c.armed, MaxArm)
  /\ last' = [op |-> op, sock |-> s, frame |-> [f EXCEPT !.payload = [NoPayload EXCEPT !.sessionKey = f.payload.sessionKey]],
              throws |-> throws, pre |-> Pre,
              emitted |-> c.emitted, sent |-> c.sent, armed |-> c.armed,
              callResult |-> c.callResult, dash |-> c.dash, delivered |-> c.delivered]

ProgramInit ==
  /\ state = "disconnected"
  /\ ws = 0
  /\ sock = [s \in Sockets |-> "NONE"]
  /\ wire = [s \in Sockets |-> {}]
  /\ reconnectTimer = 0
  /\ timers = {}
  /\ reconnectDelay = initialReconnectDelay
  /\ tickTimer = 0
  /\ ticks = {}
  /\ requestId = 0
  /\ pending = {}
  /\ reqTimers = {}
  /\ completions = [i \in RequestIds |-> <<>>]
  /\ agents = [k \in Sessions |-> NoAgent]
  /\ sessionToId = [k \in Sessions |-> 0]
  /\ nextAgentId = 1
  /\ toolIdCounter = 0
  /\ clients = [o \in Observers |-> "NONE"]
  /\ approvals = [i \in RequestIds |-> [agentId |-> 0, approved |-> FALSE]]
  /\ inbox = [o \in Observers |-> <<>>]
  /\ armCount = 0
  /\ wanted = FALSE
  /\ last = [op |-> "init", sock |-> 0, frame |-> NoFrame, throws |-> FALSE, pre |-> Pre,
             emitted |-> <<>>, sent |-> <<>>, armed |-> 0, callResult |-> "none",
             dash |-> <<>>, delivered |-> [o \in Observers |-> <<>>]]

\* The state after construction, the view not kept.
Init == ProgramInit /\ wsClient = NewWebSocketClient /\ view = NoView /\ fmt = NoFormat

\* The state after construction, the view kept.
SnapshotInit ==
  ProgramInit /\ wsClient = NewWebSocketClient /\ view = FreshView /\ fmt = NoFormat

\* The state after construction, with the arguments of a call of
\* formatToolStatus.
FormatInit ==
  /\ ProgramInit /\ wsClient = NewWebSocketClient /\ view = NoView
  /\ \E n \in ToolNames, i \in ToolInputs :
       fmt = [toolName |-> n, input |-> i, status |-> <<>>, done |-> FALSE]

\* A socket can be constructed while a slot is free; without one the
\* constructor can only raise.
CanConstruct == \E s \in Sockets : sock[s] = "NONE"

Connect ==
  \E throws \in BOOLEAN :
    /\ throws \/ CanConstruct
    /\ Apply(connect(Cur, throws), "connect", 0, NoFrame, throws)
    /\ wanted' = TRUE

Disconnect ==
  /\ Apply(disconnect(Cur), "disconnect", 0, NoFrame, FALSE)
  /\ wanted' = FALSE

Request ==
  /\ state = "connected" => requestId < MaxRequestId
  /\ Apply(request(Cur, "exec.approval.resolve"), "request", 0, NoFrame, FALSE)
  /\ UNCHANGED wanted

ReconnectTimerFires ==
  \E t \in timers, throws \in BOOLEAN :
    /\ throws \/ CanConstruct
    /\ Apply(onReconnectTimer([Cur EXCEPT !.timers = @ \ {t}], throws),
             "reconnectTimer", 0, NoFrame, throws)
    /\ UNCHANGED wanted

SocketOpen ==
  \E s \in Sockets :
    /\ sock[s] = "CONNECTING"
    /\ Apply(onOpen([Cur EXCEPT !.sock[s] = "OPEN"]), "open", s, NoFrame, FALSE)
    /\ UNCHANGED wanted

SocketMessage ==
  \E s \in Sockets, f \in Frames :
    /\ sock[s] = "OPEN"
    /\ (f.kind = "event" /\ f.event = "connect.challenge") => requestId < MaxRequestId
    /\ Apply(onMessage(Cur, f), "message", s, f, FALSE)
    /\ UNCHANGED wanted

\* The closing handshake has begun (the peer's close frame arrived, or the
\* opening handshake was aborted): no handler of the client runs.
SocketClosing ==
  \E s \in Sockets :
    /\ sock[s] \in {"CONNECTING", "OPEN"}
    /\ Apply([Cur EXCEPT !.sock[s] = "CLOSING"], "closing", s, NoFrame, FALSE)
    /\ UNCHANGED wanted

SocketClose ==
  \E s \in Sockets :
    /\ sock[s] # "NONE"
    /\ Apply(onClose([Cur EXCEPT !.sock[s] = "NONE"]), "close", s, NoFrame, FALSE)
    /\ UNCHANGED wanted

Next ==
  \/ Connect
  \/ Disconnect
  \/ Request
  \/ ReconnectTimerFires
  \/ SocketOpen
  \/ SocketMessage
  \/ SocketClosing
  \/ SocketClose

Spec == Init /\ [][Next]_vars

\* ---- the program as index.ts starts it ------------------------------------
\* The server calls gatewayClient.connect() once, when it listens, and never
\* disconnect(); with a well-formed gateway url the socket constructor does
\* not raise.  The gateway's events then carry what the translator reads.

\* server.listen's callback: gatewayClient.connect().
Start ==
  /\ last.op = "init"
  /\ CanConstruct
  /\ Apply(connect(Cur, FALSE), "connect", 0, NoFrame, FALSE)
  /\ wanted' = TRUE

\* Every event the gateway can send: lifecycle and tool events of
\* agent.stream, approval requests.
AllEvents == LifecycleFrames \cup ToolFrames \cup ApprovalFrames

\* The events the gateway sends in this specification: lifecycle events,
\* tool events that name their tool and its id, approval requests.
TranslatorFrames ==
  LifecycleFrames \cup ApprovalFrames \cup
  {f \in ToolFrames : f.payload.toolId # 0 /\ (f.payload.phase = "start" => f.payload.toolName # "")}

\* The frame keeps the model within its bounds.  Session keys are opaque
\* strings: they are numbered in the order in which their first lifecycle
\* start arrives, so the start of an untracked session carries the least
\* untracked key.  The tool history of an agent holds at most MaxTools entries.
WithinBounds(f) ==
  LET p == f.payload
      tracked == p.sessionKey # 0 /\ sessionToId[p.sessionKey] # 0
  IN  /\ (p.stream = "lifecycle" /\ p.phase = "start" /\ p.sessionKey # 0 /\ ~tracked) =>
            \A j \in 1..(p.sessionKey - 1) : sessionToId[j] # 0
      /\ (p.stream = "tool" /\ p.phase = "start" /\ tracked) =>
            Len(agents[p.sessionKey].toolHistory) < MaxTools

\* The 'message' handler for an event the translator reads.
GatewayEvent ==
  \E s \in Sockets, f \in TranslatorFrames :
    /\ sock[s] = "OPEN"
    /\ WithinBounds(f)
    /\ Apply(onMessage(Cur, f), "message", s, f, FALSE)
    /\ UNCHANGED wanted

\* The 'close' handler, at most MaxReconnects times in a run.
ConnectionLost ==
  \E s \in Sockets :
    /\ sock[s] # "NONE"
    /\ armCount < MaxReconnects
    /\ Apply(onClose([Cur EXCEPT !.sock[s] = "NONE"]), "close", s, NoFrame, FALSE)
    /\ UNCHANGED wanted

\* The callback of the reconnect timeout, the constructor not raising.
Reconnect ==
  \E t \in timers :
    /\ CanConstruct
    /\ Apply(onReconnectTimer([Cur EXCEPT !.timers = @ \ {t}], FALSE),
             "reconnectTimer", 0, NoFrame, FALSE)
    /\ UNCHANGED wanted

TranslatorNext ==
  \/ Start
  \/ SocketOpen
  \/ GatewayEvent
  \/ ConnectionLost
  \/ Reconnect

TranslatorSpec == Init /\ [][TranslatorNext]_vars

\* ---- the program with its observers ---------------------------------------
\* The browsers that connect to the server are the observers: the server
\* hands each new connection to DashboardServer.addClient.

\* wss 'connection': addClient(ws) with an open socket.
AddClient ==
  \E o \in Observers :
    /\ wanted
    /\ clients[o] = "NONE"
    /\ Apply([Cur EXCEPT !.clients[o] = "OPEN"], "addClient", 0, NoFrame, FALSE)
    /\ UNCHANGED wanted

\* An observer's socket starts to close: it is still in the set of clients.
ObserverClosing ==
  \E o \in Observers :
    /\ clients[o] = "OPEN"
    /\ Apply([Cur EXCEPT !.clients[o] = "CLOSING"], "observerClosing", 0, NoFrame, FALSE)
    /\ UNCHANGED wanted

\* The 'close' handler of an observer: clients.delete(ws).
ObserverClose ==
  \E o \in Observers :
    /\ clients[o] # "NONE"
    /\ Apply([Cur EXCEPT !.clients[o] = "NONE"], "observerClose", 0, NoFrame, FALSE)
    /\ UNCHANGED wanted

\* The 'message' handler for a lifecycle event.
LifecycleEvent ==
  \E s \in Sockets, f \in LifecycleFrames :
    /\ sock[s] = "OPEN"
    /\ WithinBounds(f)
    /\ Apply(onMessage(Cur, f), "message", s, f, FALSE)
    /\ UNCHANGED wanted

\* The sets of assets the loaders can find.
AssetSets == SUBSET {AssetTypes[i] : i \in 1..Len(AssetTypes)}

\* All assets found.
AllAssets == {AssetTypes[i] : i \in 1..Len(AssetTypes)}

\* The 'message' handler of an observer's socket.
BrowserMessage ==
  \E o \in Observers, m \in BrowserMessages, found \in AssetSets :
    /\ clients[o] # "NONE"
    /\ found \in {{}, AllAssets}
    /\ m.type # "webviewReady" => found = {}
    /\ Apply(handleBrowserMessage(Cur, o, m, found), m.type, 0, NoFrame, FALSE)
    /\ UNCHANGED wanted

HubNext ==
  \/ Start
  \/ SocketOpen
  \/ LifecycleEvent
  \/ AddClient
  \/ ObserverClosing
  \/ ObserverClose

HubSpec == Init /\ [][HubNext]_vars

\* ---- the program with the tools of its agents ------------------------------
\* The events of the sessions 1..MaxToolSessions: the lifecycle events
\* (without run id and error text), the approval requests, and the tool
\* events of the tool Bash, with and without a tool id.
ToolSessionFrames ==
  {f \in AllEvents :
     /\ f.payload.sessionKey \in 1..MaxToolSessions
     /\ f.payload.runId = 0
     /\ f.payload.error = ""
     /\ (f.payload.stream = "tool" /\ f.payload.phase = "start") => f.payload.toolName # ""}

\* The frame keeps the model within its bounds: session keys are numbered in
\* the order of their first start, a tool history holds at most MaxHistory
\* entries, and at most MaxToolCounter tool ids are made up.
WithinToolBounds(f) ==
  LET p == f.payload
      tracked == sessionToId[p.sessionKey] # 0
  IN  /\ (p.stream = "lifecycle" /\ p.phase = "start" /\ ~tracked) =>
            \A j \in 1..(p.sessionKey - 1) : sessionToId[j] # 0
      /\ (p.stream = "tool" /\ tracked) =>
            /\ p.phase = "start" => Len(agents[p.sessionKey].toolHistory) < MaxHistory
            /\ p.toolId = 0 => toolIdCounter < MaxToolCounter

\* The 'message' handler for an event of a session's run or tools.
SessionEvent ==
  \E s \in Sockets, f \in ToolSessionFrames :
    /\ sock[s] = "OPEN"
    /\ WithinToolBounds(f)
    /\ Apply(onMessage(Cur, f), "message", s, f, FALSE)
    /\ UNCHANGED wanted

\* The browsers attach, send their messages and leave.
ReplayNext ==
  \/ Start
  \/ SocketOpen
  \/ SessionEvent
  \/ AddClient
  \/ ObserverClose
  \/ BrowserMessage

\* The same program, with the history of what the observers were sent.
SnapshotSpec == SnapshotInit /\ [][ReplayNext]_vars

ReplaySpec == Init /\ [][ReplayNext]_vars

\* ---- the program with the handshake and the browsers' answers -------------
\* The gateway's handshake frames and responses, lifecycle events, and the
\* messages of the browsers.
ApprovalNext ==
  \/ Start
  \/ SocketOpen
  \/ SocketMessage
  \/ LifecycleEvent
  \/ AddClient
  \/ ObserverClose
  \/ BrowserMessage

ApprovalSpec == Init /\ [][ApprovalNext]_vars

\* ---- the program with a gateway that comes and goes ------------------------
\* The gateway's socket opens and is lost, the reconnect timer makes the next
\* attempt, and the browsers attach, send their messages and leave; what the
\* observers were sent is kept.
StatusNext ==
  \/ Start
  \/ SocketOpen
  \/ SocketClosing
  \/ SocketClose
  \/ ReconnectTimerFires
  \/ AddClient
  \/ ObserverClosing
  \/ ObserverClose
  \/ BrowserMessage

StatusSpec == SnapshotInit /\ [][StatusNext]_vars

\* ---- The browser's WebSocketClient alone -----------------------------------
\* An entry point of the WebSocketClient ran and led to w.
WsApply(w, op) ==
  /\ wsClient' = [w EXCEPT !.op = op]
  /\ UNCHANGED serverVars

\* export const wsClient = new WebSocketClient(WS_URL): the constructor.
WsConstruct ==
  \E throws \in BOOLEAN :
    /\ ~wsClient.born
    /\ WsApply(wsConnect([WsCur EXCEPT !.born = TRUE], throws), "constructor")

\* The socket s opens.
WsSocketOpen ==
  \E s \in WsSockets :
    /\ wsClient.sock[s] = "CONNECTING"
    /\ WsApply(wsOnOpen([WsCur EXCEPT !.sock[s] = "OPEN"], s), "open")

\* The socket s is closed: its close event.
WsSocketClose ==
  \E s \in WsSockets :
    /\ wsClient.sock[s] \in {"CONNECTING", "OPEN", "CLOSING"}
    /\ WsApply(wsOnClose([WsCur EXCEPT !.sock[s] = "CLOSED"], s), "close")

\* The reconnect timeout fires.
WsReconnectTimerFires ==
  \E t \in wsClient.timeouts, throws \in BOOLEAN :
    /\ wsClient.connects < MaxWsConnects
    /\ throws \/ WsFreeSlot(wsClient) # 0
    /\ WsApply(wsOnReconnectTimer(WsCur, t, throws), "timer")

\* The browser's code posts its next message.
WsPostMessage ==
  /\ wsClient.born
  /\ wsClient.posted < MaxPosts
  /\ WsApply(wsPostMessage([WsCur EXCEPT !.posted = @ + 1], wsClient.posted + 1),
              "postMessage")

\* The browser's code disposes of the client.
WsDispose ==
  /\ wsClient.born
  /\ WsApply(wsDispose([WsCur EXCEPT !.disposed = TRUE]), "dispose")

ObserverNext ==
  \/ WsConstruct
  \/ WsSocketOpen
  \/ WsSocketClose
  \/ WsReconnectTimerFires
  \/ WsPostMessage
  \/ WsDispose

ObserverSpec == Init /\ [][ObserverNext]_vars

\* ---- The browser's WebSocketClient and the server ---------------------------
\* The socket in slot s of the WebSocketClient is, at the server, the
\* observer socket s.

\* The message of the browser as the server parses it: the ready signal, or
\* a message of the browser's code, which handleBrowserMessage ignores.
ToBrowserMessage(n) ==
  IF n = WebviewReady THEN [type |-> "webviewReady", id |-> 0, approved |-> FALSE]
  ELSE [type |-> "saveAgentSeats", id |-> 0, approved |-> FALSE]

\* The messages the sockets took from the client w arrive at the server.
Arrive(w) ==
  [o \in Observers |->
     inbox[o] \o LET mine == SelectSeq(w.sent, LAMBDA x : x.sock = o)
                 IN  [i \in 1..Len(mine) |-> mine[i].msg]]

\* An entry point of the WebSocketClient ran and led to w; what it sent
\* arrives at the server.
WsApplySending(w, op) ==
  /\ wsClient' = [w EXCEPT !.op = op]
  /\ inbox' = Arrive(w)
  /\ UNCHANGED coreVars

\* wss.on('connection'): the server accepts the socket s of the browser.
Accept ==
  \E s \in WsSockets \cap Observers :
    /\ wanted
    /\ wsClient.sock[s] = "CONNECTING"
    /\ clients[s] = "NONE"
    /\ Apply([Cur EXCEPT !.clients[s] = "OPEN"], "addClient", 0, NoFrame, FALSE)
    /\ UNCHANGED wanted

\* The socket s, accepted by the server, opens in the browser.
BrowserOpens ==
  \E s \in WsSockets \cap Observers :
    /\ wsClient.sock[s] = "CONNECTING"
    /\ clients[s] = "OPEN"
    /\ WsApplySending(wsOnOpen([WsCur EXCEPT !.sock[s] = "OPEN"], s), "open")

\* The browser's code posts its next message.
BrowserPosts ==
  /\ wsClient.born
  /\ wsClient.posted < MaxBrowserPosts
  /\ WsApplySending(wsPostMessage([WsCur EXCEPT !.posted = @ + 1], wsClient.posted + 1),
                     "postMessage")

\* The 'message' handler of the observer socket o for the message that
\* arrived first.
ServerReceives ==
  \E o \in Observers, found \in {{}, AllAssets} :
    /\ inbox[o] # <<>>
    /\ clients[o] # "NONE"
    /\ Head(inbox[o]) # WebviewReady => found = {}
    /\ LET m == ToBrowserMessage(Head(inbox[o]))
       IN  Apply([handleBrowserMessage(Cur, o, m, found) EXCEPT !.inbox[o] = Tail(@)],
                 m.type, 0, NoFrame, FALSE)
    /\ UNCHANGED wanted

BrowserNext ==
  \/ Start
  \/ SocketOpen
  \/ WsConstruct
  \/ Accept
  \/ BrowserOpens
  \/ BrowserPosts
  \/ ServerReceives
  \/ WsSocketClose
  \/ WsReconnectTimerFires
  \/ ObserverClose

BrowserSpec == Init /\ [][BrowserNext]_vars

\* ---- formatToolStatus alone ---------------------------------------------------
\* The call of formatToolStatus with the arguments of fmt.
FormatToolStatus ==
  /\ ~fmt.done
  /\ fmt' = [fmt EXCEPT !.status = formatToolStatus(fmt.toolName, fmt.input), !.done = TRUE]
  /\ UNCHANGED <<state, ws, sock, wire, reconnectTimer, timers, reconnectDelay, tickTimer,
                 ticks, requestId, pending, reqTimers, completions, agents, sessionToId,
                 nextAgentId, toolIdCounter, clients, approvals, armCount, wanted, last,
                 view, inbox, wsClient>>

FormatNext == FormatToolStatus

FormatSpec == FormatInit /\ [][FormatNext]_vars

TypeOK ==
  /\ fmt.done \in BOOLEAN
  /\ wsClient.ws \in 0..MaxWsSockets
  /\ wsClient.sock \in [WsSockets -> {"NONE", "CONNECTING", "OPEN", "CLOSING", "CLOSED"}]
  /\ wsClient.reconnectTimer \in 0..MaxWsConnects
  /\ \A t \in wsClient.timeouts :
       t.id \in 1..MaxWsConnects /\ t.delay \in {1000, 2000, 4000, 8000, 16000, 30000}
  /\ wsClient.reconnectDelay \in {1000, 2000, 4000, 8000, 16000, 30000}
  /\ wsClient.state \in {"connecting", "connected", "disconnected", "reconnecting"}
  /\ Len(wsClient.sendBuffer) <= maxBufferSize
  /\ wsClient.posted \in 0..MaxPosts
  /\ view.on \in BOOLEAN
  /\ \A o \in Observers : Len(inbox[o]) <= MaxBrowserPosts + 1
  /\ \A i \in RequestIds : approvals[i].agentId \in 0..MaxSessions
  /\ state \in ConnectionStates
  /\ ws \in 0..MaxSockets
  /\ sock \in [Sockets -> {"NONE", "CONNECTING", "OPEN", "CLOSING"}]
  /\ reconnectTimer \in Nat
  /\ reconnectDelay \in initialReconnectDelay..maxReconnectDelay
  /\ requestId \in 0..MaxRequestId
  /\ pending \subseteq RequestIds
  /\ armCount \in 0..MaxArm
  /\ wanted \in BOOLEAN
  /\ sessionToId \in [Sessions -> 0..MaxSessions]
  /\ nextAgentId \in 1..(MaxSessions + 1)
  /\ \A k \in Sessions :
       /\ agents[k].id = sessionToId[k]
       /\ agents[k].status \in {"none", "busy", "idle", "error", "waiting_approval"}
       /\ agents[k].currentRunId \in 0..MaxRunId
       /\ Len(agents[k].toolHistory) <= MaxTools + MaxHistory
  /\ clients \in [Observers -> {"NONE", "OPEN", "CLOSING"}]

\* ---- what the code never reaches ----------------------------------------
\* sendConnectRequest puts no entry into pendingRequests, handleFrame calls
\* onConnected only for an entry of pendingRequests, and request() makes an
\* entry only in state connected: the state connected is never entered, no
\* request is ever pending and no keepalive interval ever runs.  This is why
\* the callbacks of the request timeout and of the keepalive interval are not
\* actions of Next: they are never enabled.
ConnectedUnreachable ==
  /\ state # "connected"
  /\ pending = {} /\ reqTimers = {}
  /\ tickTimer = 0 /\ ticks = {}
  /\ \A i \in RequestIds : completions[i] = <<>>

\* The frame handled last is the gateway's acceptance of the handshake: an ok
\* response of the hello-ok variant, on the current and open socket, to a
\* connect request the client has sent on that socket, while handshaking.
HelloOkAnswered ==
  /\ last.op = "message"
  /\ last.frame.kind = "res" /\ last.frame.ok /\ last.frame.ptype = "hello-ok"
  /\ last.pre.state = "handshaking"
  /\ ws # 0 /\ ws = last.sock /\ sock[ws] = "OPEN"
  /\ [type |-> "req", id |-> last.frame.id, method |-> "connect"] \in wire[ws]

\* C1: once the socket is open, the challenge has been received and the
\* client's connect request is answered with ok/hello-ok on the open socket,
\* the state is connected and the keepalive interval runs.
C1_HandshakeCompletes ==
  HelloOkAnswered => /\ state = "connected"
                     /\ tickTimer # 0
                     /\ tickTimer \in TimerIds(ticks)

\* C7: after a successful connect (the gateway has accepted the handshake) the
\* reconnect delay is back at 1s, so the reconnect scheduled when this
\* connection is lost waits 1s.
C7_DelayResetOnConnect == HelloOkAnswered => reconnectDelay = initialReconnectDelay

\* The call of request() that ran last, by the state it was made in.
RequestWhileNotConnected == last.op = "request" /\ last.pre.state # "connected"
RequestWhileConnected == last.op = "request" /\ last.pre.state = "connected"

\* C4: request() in a state other than connected fails at once with the
\* not-connected error: no id is taken, nothing is pending, no timer is armed
\* and no frame is sent.  In state connected it takes the next id, which was
\* not pending, makes exactly that id pending with a timer, and sends one req
\* frame carrying it.
C4_RequestGuard ==
  /\ RequestWhileNotConnected =>
       /\ last.callResult = "notConnected"
       /\ requestId = last.pre.requestId
       /\ pending = last.pre.pending
       /\ reqTimers = last.pre.reqTimers
       /\ last.sent = <<>>
       /\ state = last.pre.state
  /\ RequestWhileConnected =>
       /\ last.callResult = "pending"
       /\ requestId = last.pre.requestId + 1
       /\ requestId \notin last.pre.pending
       /\ pending = last.pre.pending \cup {requestId}
       /\ reqTimers = last.pre.reqTimers \cup {requestId}
       /\ Len(last.sent) = 1
       /\ last.sent[1].type = "req" /\ last.sent[1].id = requestId

\* request() was refused although the handshake is under way on an open socket.
C4_Witness ==
  /\ RequestWhileNotConnected
  /\ last.pre.state = "handshaking"
  /\ ws # 0 /\ sock[ws] = "OPEN"
  /\ last.callResult = "notConnected"

\* The entry point that ran last was the close handler of a socket, or a
\* connect() (called directly or by the reconnect timer) in which the socket
\* constructor raised.
SocketClosed == last.op = "close"
ConstructionFailed == last.op \in {"connect", "reconnectTimer"} /\ last.throws /\ last.emitted # <<>>

\* Every request that was in flight before the entry point has been failed
\* with the connection-closed error and nothing is in flight.
InFlightFailed ==
  /\ pending = {} /\ reqTimers = {}
  /\ \A id \in last.pre.pending :
       completions[id] # <<>> /\ completions[id][Len(completions[id])] = "closed"

\* scheduleReconnect found a timer outstanding when the entry point called it.
TimerWasOutstanding == last.op # "reconnectTimer" /\ last.pre.reconnectTimer # 0

\* A reconnect timer is outstanding: the one that was, untouched, or else one
\* newly armed with the delay that was current.
ReconnectScheduled ==
  /\ reconnectTimer # 0
  /\ IF TimerWasOutstanding
       THEN last.armed = 0 /\ timers = last.pre.timers
                           /\ reconnectDelay = last.pre.reconnectDelay
       ELSE last.armed = 1 /\ timers = {[id |-> reconnectTimer, delay |-> last.pre.reconnectDelay]}

\* C5 as stated: on socket close and on construction failure alike the state
\* is disconnected, every in-flight request is failed and a reconnect is
\* scheduled.
C5_CloseAndFailureAlike ==
  (SocketClosed \/ ConstructionFailed) =>
     state = "disconnected" /\ InFlightFailed /\ reconnectTimer # 0

\* C5 amended: on socket close the state is disconnected and every in-flight
\* request is failed; on construction failure the state is error and the
\* in-flight requests are left as they are; in both cases a reconnect timer
\* is outstanding afterwards, newly armed with the current backoff delay
\* unless one was outstanding already.
C5_CloseOrFailure ==
  /\ SocketClosed => state = "disconnected" /\ InFlightFailed /\ ReconnectScheduled
  /\ ConstructionFailed =>
       /\ state = "error"
       /\ pending = last.pre.pending /\ reqTimers = last.pre.reqTimers
       /\ ReconnectScheduled

\* The socket constructor raised in the connect() of the reconnect timer that
\* a close had armed: the state is error and a timer is armed again.
C5_Witness ==
  /\ ConstructionFailed /\ last.op = "reconnectTimer"
  /\ last.pre.state = "disconnected"
  /\ state = "error" /\ last.armed = 1

\* min(1s * 2^(k-1), 30s)
Backoff(k) == Min(initialReconnectDelay * 2^(k - 1), maxReconnectDelay)

\* C6: the k-th reconnect timer armed since construction (or since the last
\* onConnected) is armed with min(1s * 2^(k-1), 30s); no delay is below 1s or
\* above 30s.  armCount is k, and stops counting at MaxArm.
C6_BackoffSequence ==
  /\ reconnectDelay >= initialReconnectDelay /\ reconnectDelay <= maxReconnectDelay
  /\ \A t \in timers : t.delay >= initialReconnectDelay /\ t.delay <= maxReconnectDelay
  /\ (last.armed > 0 /\ armCount < MaxArm) =>
       /\ armCount >= 1
       /\ \E t \in timers : t.id = reconnectTimer /\ t.delay = Backoff(armCount)

\* The sixth timer in a row has been armed, with the ceiling of 30s.
C6_Witness ==
  /\ last.armed = 1 /\ armCount = 6
  /\ \E t \in timers : t.id = reconnectTimer /\ t.delay = maxReconnectDelay

\* C8: at most one reconnect timer is armed, and it is the one the client has
\* the handle of; a scheduleReconnect that finds a timer outstanding arms none
\* and leaves the backoff delay as it was.
C8_OneReconnectTimer ==
  /\ Cardinality(timers) <= 1
  /\ TimerIds(timers) = (IF reconnectTimer = 0 THEN {} ELSE {reconnectTimer})
  /\ ((SocketClosed \/ ConstructionFailed) /\ TimerWasOutstanding) =>
       /\ last.armed = 0
       /\ timers = last.pre.timers
       /\ reconnectDelay = last.pre.reconnectDelay

\* scheduleReconnect has run while a timer was outstanding.
C8_Witness ==
  /\ SocketClosed \/ ConstructionFailed
  /\ TimerWasOutstanding
  /\ Cardinality(timers) = 1

\* The current socket is live.
CurrentSocketLive == ws # 0 /\ sock[ws] \in {"CONNECTING", "OPEN"}

\* C9: unless disconnect() was called, the client is never in disconnected or
\* error without an outstanding reconnect timer or a live current socket;
\* after a close or a construction failure the timer is outstanding, and the
\* timer's callback makes the connection attempt (a new socket, or a
\* constructor failure that re-arms the timer) unless a current socket is live.
C9_AlwaysRetried ==
  /\ (wanted /\ state \in {"disconnected", "error"}) => (reconnectTimer # 0 \/ CurrentSocketLive)
  /\ (SocketClosed \/ ConstructionFailed) => reconnectTimer \in TimerIds(timers)
  /\ last.op = "reconnectTimer" =>
       \/ CurrentSocketLive
       \/ state = "error" /\ reconnectTimer \in TimerIds(timers)

\* The reconnect timer armed by a close has fired and a new socket is connecting.
C9_Witness ==
  /\ last.op = "reconnectTimer" /\ ~last.throws
  /\ last.pre.state = "disconnected" /\ wanted
  /\ state = "connecting" /\ CurrentSocketLive

\* C10: right after disconnect() the state is disconnected, no reconnect
\* timer is outstanding, the keepalive is cancelled, nothing is pending and
\* every request that was pending has been failed with "connection closed".
C10_AfterDisconnect ==
  last.op = "disconnect" =>
    /\ state = "disconnected"
    /\ reconnectTimer = 0 /\ timers = {}
    /\ tickTimer = 0 /\ ticks = {}
    /\ InFlightFailed

\* disconnect() was called while a reconnect timer was outstanding.
C10_Witness ==
  /\ last.op = "disconnect"
  /\ last.pre.reconnectTimer # 0 /\ last.pre.state = "error"
  /\ state = "disconnected"

\* ---- disconnect, stale events, connect ----------------------------------
\* The readyState of the socket that was current before the entry point that
\* ran last, "NULL" if this.ws was null.
PreWsState == IF last.pre.ws = 0 THEN "NULL" ELSE last.pre.sock[last.pre.ws]
PreWsLive == PreWsState \in {"CONNECTING", "OPEN"}

\* C11: after disconnect() the socket that was in use has been closed by the
\* client: it is neither connecting nor open, so it delivers no frame any more.
C11_DisconnectReleasesSocket ==
  (last.op = "disconnect" /\ PreWsLive) => sock[last.pre.ws] \notin {"CONNECTING", "OPEN"}

\* The event handled last came from a socket the client had let go of (by
\* disconnect() or cleanup(), or it was closing when connect() replaced it)
\* while its successor was the current socket and live.
StaleSocketEvent ==
  /\ last.op \in {"open", "close"}
  /\ last.sock # last.pre.ws
  /\ PreWsLive

\* C12: an event of a connection that was torn down does not act on its
\* successor: the current socket, the state and the reconnect timer are as
\* they were.
C12_NoStaleEventActs ==
  StaleSocketEvent =>
    /\ ws = last.pre.ws
    /\ state = last.pre.state
    /\ reconnectTimer = last.pre.reconnectTimer

\* connect() was called directly (not by the reconnect timer).
ConnectCalled == last.op = "connect"

\* The call did nothing: no event emitted, no socket created or changed, the
\* fields as they were.
WasNoOp ==
  /\ last.emitted = <<>>
  /\ state = last.pre.state
  /\ ws = last.pre.ws
  /\ sock = last.pre.sock
  /\ reconnectTimer = last.pre.reconnectTimer /\ timers = last.pre.timers
  /\ reconnectDelay = last.pre.reconnectDelay

\* C13 as stated: connect() called in state connecting, handshaking or
\* connected is a no-op.
C13_ConnectIdempotentByState ==
  (ConnectCalled /\ last.pre.state \in {"connecting", "handshaking", "connected"}) => WasNoOp

\* C13 amended: connect() called while the current socket (this.ws) is
\* connecting or open is a no-op, whatever the state field says; so is a
\* connect() right after a connect() that constructed a socket.
C13_ConnectIdempotentBySocket ==
  (ConnectCalled /\ PreWsLive) => WasNoOp

\* connect() was called while the socket a connect() had constructed was
\* still connecting, and did nothing.
C13_Witness ==
  /\ ConnectCalled /\ PreWsState = "CONNECTING" /\ last.pre.state = "connecting"
  /\ ws # 0 /\ sock[ws] = "CONNECTING"
  /\ Cardinality({s \in Sockets : sock[s] # "NONE"}) = 1
\* ---- C14 ------------------------------------------------------------------
\* C14: a frame handled while the state is handshaking leaves the state
\* handshaking, raises no 'error' and reaches no observer: nothing is sent
\* to the dashboard and no agent is created or changed by it.  (In this
\* specification every frame is an event; none answers the connect request.)
C14_HandshakingFramesInert ==
  (last.op = "message" /\ last.pre.state = "handshaking") =>
    /\ state = "handshaking"
    /\ \A i \in 1..Len(last.emitted) : last.emitted[i].ev # "error"
    /\ last.dash = <<>>

\* ---- the translator, event by event ---------------------------------------
\* A socket is open: its 'message' handler can run.
Listening == \E s \in Sockets : sock[s] = "OPEN"

\* The program after the 'message' handler has run on the frame f.
After(f) == onMessage(Cur, f)

\* The session keys that have an agent id.
Tracked == {k \in Sessions : sessionToId[k] # 0}

\* f is a lifecycle event of phase ph that names a session key.
IsLifecycle(f, ph) ==
  /\ f.payload.stream = "lifecycle"
  /\ f.payload.phase = ph
  /\ f.payload.sessionKey # 0

\* f is a lifecycle start for a session key without an agent id.
IsNewStart(f) == IsLifecycle(f, "start") /\ f.payload.sessionKey \notin Tracked

\* ---- C15 ------------------------------------------------------------------
\* C15: agent ids are allocated in order.  The ids in use are 1..n for n
\* tracked sessions, distinct, and nextAgentId is n+1; a lifecycle start of
\* an untracked session key, the (n+1)-th distinct one, gets the id n+1 and
\* moves nextAgentId by one; every other event leaves sessionToId and
\* nextAgentId as they are.
C15_AgentIdAllocation ==
  LET n == Cardinality(Tracked)
  IN  /\ nextAgentId = n + 1
      /\ {sessionToId[k] : k \in Tracked} = 1..n
      /\ Listening =>
            \A f \in AllEvents :
              LET c == After(f)
                  k == f.payload.sessionKey
              IN  IF IsNewStart(f)
                    THEN /\ c.sessionToId = [sessionToId EXCEPT ![k] = n + 1]
                         /\ c.nextAgentId = n + 2
                    ELSE /\ c.sessionToId = sessionToId
                         /\ c.nextAgentId = nextAgentId

\* The second distinct session has just got the id 2, after the first
\* session's agent went through other events.
C15_Witness ==
  /\ last.op = "message"
  /\ last.dash = <<Msg("agentCreated", 2, 0, ""), Msg("agentStatus", 2, 0, "active")>>
  /\ sessionToId = [k \in Sessions |-> IF k <= 2 THEN k ELSE 0]
  /\ nextAgentId = 3
  /\ agents[1].status = "error"
  /\ agents[1].toolHistory # <<>>

\* ---- C16 ------------------------------------------------------------------
\* C16: in every step of the program (an event of any kind, the socket
\* opening or closing, a reconnect) a session key that has an id keeps it,
\* its agent stays in the roster under that id, and no other session key
\* gets that id.
C16_MappingAppendOnly ==
  [][\A k \in Sessions :
       sessionToId[k] # 0 =>
         /\ sessionToId'[k] = sessionToId[k]
         /\ agents'[k] # NoAgent
         /\ agents'[k].id = sessionToId[k]
         /\ \A j \in Sessions \ {k} : sessionToId'[j] # sessionToId[k]]_vars

\* After the connection was lost and made again, with the first agent
\* failed, a second session has just got its own id.
C16_Witness ==
  /\ armCount = 1
  /\ last.op = "message"
  /\ last.dash = <<Msg("agentCreated", 2, 0, ""), Msg("agentStatus", 2, 0, "active")>>
  /\ sessionToId[1] = 1
  /\ agents[1].id = 1
  /\ agents[1].status = "error"

\* ---- C17 ------------------------------------------------------------------
\* C17: a lifecycle start for a session key that has an id, whatever the
\* status of its agent, takes no new id and sends no agentCreated: the one
\* message sent is agentStatus(active) for the id the session has, and the
\* agent is busy with the run id of the event and an empty tool history.
\* The other agents are as before.
C17_RestartOfTrackedSession ==
  Listening =>
    \A f \in LifecycleFrames :
      (IsLifecycle(f, "start") /\ f.payload.sessionKey \in Tracked) =>
        LET c  == After(f)
            k  == f.payload.sessionKey
            id == sessionToId[k]
        IN  /\ c.nextAgentId = nextAgentId
            /\ c.sessionToId = sessionToId
            /\ c.dash = <<Msg("agentStatus", id, 0, "active")>>
            /\ c.agents = [agents EXCEPT ![k] = [id |-> id, status |-> "busy",
                                                 currentRunId |-> f.payload.runId,
                                                 toolHistory |-> <<>>]]

\* The first session has just been started again, with a run id: one
\* agentStatus(active), no second id.
C17_Witness ==
  /\ last.op = "message"
  /\ last.dash = <<Msg("agentStatus", 1, 0, "active")>>
  /\ agents[1] = [id |-> 1, status |-> "busy", currentRunId |-> 1, toolHistory |-> <<>>]
  /\ nextAgentId = 2

\* ---- C18 ------------------------------------------------------------------
\* C18: a lifecycle start for a session key without an id creates the agent,
\* busy, with the run id of the event and an empty tool history, and sends
\* exactly agentCreated(id) then agentStatus(id, active).  Each observer
\* whose socket is open receives these two, in this order; an observer whose
\* socket is closing receives neither.
C18_NewSessionAnnounced ==
  Listening =>
    \A f \in LifecycleFrames :
      IsNewStart(f) =>
        LET c   == After(f)
            k   == f.payload.sessionKey
            id  == nextAgentId
            two == <<Msg("agentCreated", id, 0, ""), Msg("agentStatus", id, 0, "active")>>
        IN  /\ c.agents = [agents EXCEPT ![k] = [id |-> id, status |-> "busy",
                                                 currentRunId |-> f.payload.runId,
                                                 toolHistory |-> <<>>]]
            /\ c.dash = two
            /\ \A o \in Observers :
                 c.delivered[o] = IF clients[o] = "OPEN" THEN two ELSE <<>>

\* A second session has just started: the first observer, open, received
\* agentCreated(2) then agentStatus(2, active); the second, closing, nothing.
C18_Witness ==
  /\ last.op = "message"
  /\ agents[2] = [id |-> 2, status |-> "busy", currentRunId |-> 1, toolHistory |-> <<>>]
  /\ clients = [o \in Observers |-> IF o = 1 THEN "OPEN" ELSE IF o = 2 THEN "CLOSING" ELSE "NONE"]
  /\ last.delivered[1] = <<Msg("agentCreated", 2, 0, ""), Msg("agentStatus", 2, 0, "active")>>
  /\ last.delivered[2] = <<>>

\* ---- C19 ------------------------------------------------------------------
\* C19: a lifecycle end for a session key that has an id makes its agent
\* idle with no run id, and sends exactly agentToolsClear(id) then
\* agentStatus(id, waiting).  Nothing else of the translator changes.
C19_EndOfRun ==
  Listening =>
    \A f \in LifecycleFrames :
      (IsLifecycle(f, "end") /\ f.payload.sessionKey \in Tracked) =>
        LET c  == After(f)
            k  == f.payload.sessionKey
            id == sessionToId[k]
        IN  /\ c.agents = [agents EXCEPT ![k].status = "idle", ![k].currentRunId = 0]
            /\ c.dash = <<Msg("agentToolsClear", id, 0, ""),
                          Msg("agentStatus", id, 0, "waiting")>>
            /\ c.sessionToId = sessionToId
            /\ c.nextAgentId = nextAgentId

\* The run of the second agent, which used a tool, has just ended.
C19_Witness ==
  /\ last.op = "message"
  /\ last.dash = <<Msg("agentToolsClear", 2, 0, ""), Msg("agentStatus", 2, 0, "waiting")>>
  /\ agents[2].status = "idle"
  /\ agents[2].currentRunId = 0
  /\ agents[2].toolHistory # <<>>

\* ---- C20 ------------------------------------------------------------------
\* C20: a lifecycle error for a session key that has an id gives its agent
\* the status error and sends exactly one message, agentError(id), with the
\* text of the event, or with "Unknown error" when the event has no text.
\* The agent keeps its id, its run id and its tool history; the roster and
\* the ids are as before.
C20_RunFails ==
  Listening =>
    \A f \in LifecycleFrames :
      (IsLifecycle(f, "error") /\ f.payload.sessionKey \in Tracked) =>
        LET c  == After(f)
            k  == f.payload.sessionKey
            id == sessionToId[k]
        IN  /\ c.agents = [agents EXCEPT ![k].status = "error"]
            /\ Len(c.dash) = 1
            /\ c.dash[1].type = "agentError"
            /\ c.dash[1].id = id
            /\ f.payload.error # "" => c.dash[1].arg = f.payload.error
            /\ f.payload.error = "" => c.dash[1].arg = "Unknown error"
            /\ c.sessionToId = sessionToId
            /\ c.nextAgentId = nextAgentId

\* The run of the first agent has just failed without a text, while a
\* second agent is busy.
C20_Witness ==
  /\ last.op = "message"
  /\ last.dash = <<Msg("agentError", 1, 0, "Unknown error")>>
  /\ agents[1].id = 1
  /\ agents[1].status = "error"
  /\ agents[1].currentRunId = 1
  /\ agents[2].status = "busy"

\* ---- C21 ------------------------------------------------------------------
\* f names a session key that has no id, and is not the lifecycle start that
\* would give it one.
IsForUnknownSession(f) ==
  /\ f.payload.sessionKey # 0
  /\ f.payload.sessionKey \notin Tracked
  /\ ~IsLifecycle(f, "start")

\* C21: a lifecycle end or error, a tool start or end, or an approval
\* request for a session key without an id is dropped: no dashboard message,
\* no 'error', nothing sent to the gateway, and the roster, the ids, the
\* counters and the connection state are as before.
C21_UnknownSessionDropped ==
  Listening =>
    \A f \in AllEvents :
      IsForUnknownSession(f) =>
        LET c == After(f)
        IN  /\ c.dash = <<>>
            /\ c.sent = <<>>
            /\ \A i \in 1..Len(c.emitted) : c.emitted[i].ev = "gatewayEvent"
            /\ c.agents = agents
            /\ c.sessionToId = sessionToId
            /\ c.nextAgentId = nextAgentId
            /\ c.toolIdCounter = toolIdCounter
            /\ c.state = state

\* An approval request for the second session key, which has no id, has
\* just been handled while the first agent is busy: nothing was sent.
C21_Witness ==
  /\ last.op = "message"
  /\ last.frame.event = "exec.approval.requested"
  /\ last.frame.payload.sessionKey = 2
  /\ sessionToId[2] = 0
  /\ agents[1].status = "busy"
  /\ last.dash = <<>>

\* ---- C22 ------------------------------------------------------------------
\* C22: an approval request for a session key that has an id gives its
\* agent the status waiting_approval and sends exactly one message,
\* agentToolPermission(id).  The agent's run id and tool history, the other
\* agents and the ids are as before.
C22_ApprovalRequested ==
  Listening =>
    \A f \in ApprovalFrames :
      f.payload.sessionKey \in Tracked =>
        LET c  == After(f)
            k  == f.payload.sessionKey
        IN  /\ c.agents = [agents EXCEPT ![k].status = "waiting_approval"]
            /\ c.dash = <<Msg("agentToolPermission", sessionToId[k], 0, "")>>
            /\ c.sessionToId = sessionToId
            /\ c.nextAgentId = nextAgentId

\* The first agent, with a tool running, has just been asked for an
\* approval, while the second agent is busy.
C22_Witness ==
  /\ last.op = "message"
  /\ last.frame.event = "exec.approval.requested"
  /\ last.frame.payload.sessionKey = 1
  /\ last.dash = <<Msg("agentToolPermission", 1, 0, "")>>
  /\ agents[1].status = "waiting_approval"
  /\ agents[1].toolHistory # <<>>
  /\ agents[2].status = "busy"

\* ---- C23 ------------------------------------------------------------------
\* C23: once the gateway has accepted the handshake, an observer's answer
\* {id, approved} for an agent in the roster is forwarded: resolveApproval
\* sends one exec.approval.resolve request to the gateway.
C23_ApprovalForwarded ==
  HelloOkAnswered =>
    \A k \in Tracked, a \in BOOLEAN :
      LET c == handleBrowserMessage(Cur, 1,
                 [type |-> "approveExec", id |-> sessionToId[k], approved |-> a], {})
      IN  /\ Len(c.sent) = 1
          /\ c.sent[1].type = "req"
          /\ c.sent[1].method = "exec.approval.resolve"

\* ---- C24 ------------------------------------------------------------------
\* The tool id a tool event f has for the translator: its own, or the next
\* one the translator makes up.
EffectiveToolId(f) == IF f.payload.toolId # 0 THEN f.payload.toolId ELSE toolIdCounter + 1

\* A tool start for a session key with an id adds one entry, not done, at
\* the end of the history of that agent; a tool end keeps every entry in its
\* place and marks the first entry with the tool id, if there is one, done.
\* The other agents are as before.
ToolEventEffect ==
  Listening =>
    \A f \in ToolFrames :
      f.payload.sessionKey \in Tracked =>
        LET c  == After(f)
            k  == f.payload.sessionKey
            t  == EffectiveToolId(f)
            h  == agents[k].toolHistory
            h2 == c.agents[k].toolHistory
            i  == FindTool(h, t)
        IN  /\ \A j \in Sessions \ {k} : c.agents[j] = agents[j]
            /\ f.payload.phase = "start" =>
                 /\ Len(h2) = Len(h) + 1
                 /\ SubSeq(h2, 1, Len(h)) = h
                 /\ h2[Len(h2)].toolId = t
                 /\ h2[Len(h2)].done = FALSE
            /\ f.payload.phase = "end" =>
                 h2 = [j \in 1..Len(h) |-> IF j = i THEN [h[j] EXCEPT !.done = TRUE] ELSE h[j]]

\* In a step of the program the tool history of an agent keeps its entries,
\* in their places and with done staying done, unless the step is a lifecycle
\* start of its session, which empties it.
ToolHistoryStep ==
  \A k \in Sessions :
    LET h  == agents[k].toolHistory
        h2 == agents'[k].toolHistory
    IN  \/ /\ Len(h2) >= Len(h)
           /\ \A j \in 1..Len(h) :
                /\ h2[j].toolId = h[j].toolId
                /\ h2[j].name = h[j].name
                /\ h[j].done => h2[j].done
        \/ /\ h2 = <<>>
           /\ last'.op = "message"
           /\ last'.frame.payload.sessionKey = k
           /\ last'.dash = <<Msg("agentStatus", sessionToId[k], 0, "active")>>

\* C24: tool history discipline.  A tool start appends one entry that is not
\* done; a tool end marks the entry with its tool id done, in place; no entry
\* is removed, moved or made not done again, except that a lifecycle start
\* of the session empties the history.
C24_ToolHistoryDiscipline == []ToolEventEffect /\ [][ToolHistoryStep]_vars

\* The first of two tools of the agent has just ended: it is marked done in
\* its place, and the second is still running behind it.
C24_Witness ==
  /\ last.op = "message"
  /\ last.dash = <<Msg("agentToolDone", 1, 1, "")>>
  /\ agents[1].toolHistory = <<[toolId |-> 1, name |-> "Bash", done |-> TRUE],
                               [toolId |-> 2, name |-> "Bash", done |-> FALSE]>>

\* ---- C25 ------------------------------------------------------------------
\* The browser's ready signal.
Ready == [type |-> "webviewReady", id |-> 0, approved |-> FALSE]

\* The place of a message in the snapshot: assets, settings, roster, layout,
\* replay of the agents, connection status; 0 for a message that is none of
\* these.
SnapshotRank(msg) ==
  IF msg.type \in AllAssets THEN 1
  ELSE IF msg.type = "settingsLoaded" THEN 2
  ELSE IF msg.type = "existingAgents" THEN 3
  ELSE IF msg.type = "layoutLoaded" THEN 4
  ELSE IF msg.type \in {"agentStatus", "agentToolStart"} THEN 5
  ELSE IF msg.type = "connectionStatus" THEN 6
  ELSE 0

\* C25: the snapshot sent on a ready signal of an observer with an open
\* socket is, in this order: the assets that were found, each once, the
\* settings, one existingAgents roster, the layout, agentStatus and
\* agentToolStart messages of the agents, and last one connectionStatus with
\* the state of the gateway connection.  While it is sent nothing is sent to
\* another observer, the translator emits nothing and its state is as before.
C25_SnapshotOrder ==
  \A o \in Observers, found \in AssetSets :
    clients[o] = "OPEN" =>
      LET c == handleBrowserMessage(Cur, o, Ready, found)
          d == c.delivered[o]
      IN  /\ \A i \in 1..Len(d) : SnapshotRank(d[i]) # 0
          /\ \A i, j \in 1..Len(d) : i < j => SnapshotRank(d[i]) <= SnapshotRank(d[j])
          /\ \A a \in AllAssets :
               Cardinality({i \in 1..Len(d) : d[i].type = a}) = IF a \in found THEN 1 ELSE 0
          /\ Cardinality({i \in 1..Len(d) : d[i].type = "existingAgents"}) = 1
          /\ Cardinality({i \in 1..Len(d) : d[i].type = "connectionStatus"}) = 1
          /\ d[Len(d)] = Msg("connectionStatus", 0, 0, state)
          /\ \A o2 \in Observers \ {o} : c.delivered[o2] = <<>>
          /\ c.dash = <<>>
          /\ c.agents = agents /\ c.sessionToId = sessionToId /\ c.state = state

\* An observer has just sent its ready signal after the run of the agent
\* failed with a tool running: it received the whole snapshot, the
\* connection status last.
C25_Witness ==
  /\ last.op = "webviewReady"
  /\ agents[1].status = "error"
  /\ agents[1].toolHistory # <<>>
  /\ last.delivered[1] =
       <<Msg("characterSpritesLoaded", 0, 0, ""), Msg("floorTilesLoaded", 0, 0, ""),
         Msg("wallTilesLoaded", 0, 0, ""), Msg("furnitureAssetsLoaded", 0, 0, ""),
         Msg("settingsLoaded", 0, 0, ""), Roster(<<1>>), Msg("layoutLoaded", 0, 0, ""),
         Msg("agentStatus", 1, 0, "error"), Msg("connectionStatus", 0, 0, "handshaking")>>
  /\ last.delivered[2] = <<>>

\* ---- C26 ------------------------------------------------------------------
\* The tool ids of the entries of the history h that are not done, in order.
OpenToolIds(h) ==
  LET open == SelectSeq(h, LAMBDA t : ~t.done)
  IN  [i \in 1..Len(open) |-> open[i].toolId]

\* The tool ids of the agentToolStart messages for the agent id in d, in order.
ToolStartsFor(d, id) ==
  LET starts == SelectSeq(d, LAMBDA m : m.type = "agentToolStart" /\ m.id = id)
  IN  [i \in 1..Len(starts) |-> starts[i].toolId]

\* The snapshot the observer o receives on its ready signal when no asset
\* is found.
Snapshot(o) == handleBrowserMessage(Cur, o, Ready, {}).delivered[o]

C27_ExistenceBeforeDeltas ==
  \A o \in Observers : ~view.early[o]

\* ---- C28 ------------------------------------------------------------------
\* getClientCount(): the size of the set of clients.
getClientCount(cl) == Cardinality({o \in Observers : cl[o] # "NONE"})

\* Every message the translator emits for a gateway event is sent to each
\* observer of the set whose socket is open, in the order of emission, and
\* to no other; the set of clients is as before.
FanOut ==
  Listening =>
    \A f \in AllEvents :
      LET c == After(f)
      IN  /\ \A o \in Observers :
               c.delivered[o] = IF clients[o] = "OPEN" THEN c.dash ELSE <<>>
          /\ c.clients = clients

\* A step that takes an observer out of the set of clients is its 'close'
\* handler: it takes out this one alone, the count goes down by one, and
\* nothing is sent.
DetachStep ==
  \A o \in Observers :
    (clients[o] # "NONE" /\ clients'[o] = "NONE") =>
      /\ last'.op = "observerClose"
      /\ \A o2 \in Observers \ {o} : clients'[o2] = clients[o2]
      /\ getClientCount(clients') = getClientCount(clients) - 1
      /\ last'.delivered = [o2 \in Observers |-> <<>>]

NewSnapshot ==
  handleBrowserMessage([Cur EXCEPT !.clients[1] = "OPEN"], 1, Ready, {}).delivered[1]

\* The open tools of the agent id an observer takes from the snapshot d.
SnapshotTools(d, id) ==
  {ToolStartsFor(d, id)[i] : i \in 1..Len(ToolStartsFor(d, id))}

\* C29: for each busy agent, the open tool ids in the snapshot of an
\* observer that attaches now are the open tool ids of an observer that was
\* sent every message of the translator from the start (agentToolStart
\* adds, agentToolDone removes, agentToolsClear empties).
C29_SnapshotDeltaEquivalence ==
  \A k \in Tracked :
    agents[k].status = "busy" =>
      SnapshotTools(NewSnapshot, agents[k].id) = view.tools[agents[k].id]

\* ---- C30 ------------------------------------------------------------------
\* The socket the WebSocketClient holds is open.
WsOpen == wsClient.ws # 0 /\ wsClient.sock[wsClient.ws] = "OPEN"

\* C30: the send buffer never holds more than maxBufferSize messages; it
\* holds messages in the order they were posted, none missing between two
\* of them, and the last of them is the message posted last; and a message
\* posted while the socket is not open is not sent, it is appended to the
\* buffer, and if the buffer then exceeds maxBufferSize its first message,
\* and no other, is dropped.
C30_SendBuffer ==
  LET b == wsClient.sendBuffer
  IN  /\ Len(b) <= maxBufferSize
      /\ \A i \in 1..(Len(b) - 1) : b[i + 1] = b[i] + 1
      /\ b # <<>> => b[Len(b)] = wsClient.posted
      /\ (wsClient.born /\ ~WsOpen) =>
           LET m == wsClient.posted + 1
               w == wsPostMessage(WsCur, m)
           IN  /\ w.sent = <<>> /\ w.lost = <<>> /\ ~w.threw
               /\ w.sendBuffer = IF Len(b) = maxBufferSize THEN Append(Tail(b), m)
                                                          ELSE Append(b, m)
               /\ w = [WsCur EXCEPT !.sendBuffer = w.sendBuffer]

\* The last message was posted with the socket not open and the buffer
\* full: the buffer holds the 100 messages posted last, the first two being
\* dropped.
C30_Witness ==
  /\ wsClient.op = "postMessage"
  /\ ~WsOpen
  /\ wsClient.posted = maxBufferSize + 2
  /\ Len(wsClient.sendBuffer) = maxBufferSize
  /\ wsClient.sendBuffer[1] = 3
  /\ wsClient.sendBuffer[maxBufferSize] = maxBufferSize + 2
  /\ wsClient.sent = <<>>

\* ---- C32 ------------------------------------------------------------------
\* The delay of the n-th timeout set since the socket last opened.
WsBackoff(n) == Min(wsInitialReconnectDelay * 2 ^ (n - 1), wsMaxReconnectDelay)

\* C32: at most one reconnect timeout of the WebSocketClient is pending;
\* the n-th timeout set since the socket last opened (or since the start)
\* has the delay 1000 * 2^(n-1) ms, at most 30000 ms, and the delay kept for
\* the next one is that of the (n+1)-th, so 1000 ms after the socket opened.
C32_Backoff ==
  /\ Cardinality(wsClient.timeouts) <= 1
  /\ \A t \in wsClient.timeouts : t.delay = WsBackoff(wsClient.armCount)
  /\ wsClient.reconnectDelay = WsBackoff(wsClient.armCount + 1)
  /\ WsOpen => wsClient.reconnectDelay = wsInitialReconnectDelay

\* Six attempts in a row failed: the timeout pending has the delay of the
\* ceiling, 30000 ms, not 32000.
C32_Witness ==
  /\ wsClient.armCount = 6
  /\ wsClient.timeouts = {[id |-> 6, delay |-> wsMaxReconnectDelay]}
  /\ wsClient.reconnectDelay = wsMaxReconnectDelay

\* ---- C36 ------------------------------------------------------------------
\* C36: once dispose() was called no reconnect timeout is pending, and the
\* entry point that ran last did not construct a socket.
C36_DisposeIsFinal ==
  wsClient.disposed =>
    /\ wsClient.timeouts = {}
    /\ ~(wsClient.op = "timer" /\ wsClient.ws # 0 /\ wsClient.sock[wsClient.ws] = "CONNECTING")

\* ---- C31 ------------------------------------------------------------------
\* The ready signals among the messages d.
ReadySignals(d) == {i \in 1..Len(d) : d[i] = WebviewReady}

\* When a socket of the WebSocketClient opens, the socket takes the
\* buffered messages in the order of the buffer, each once, then one ready
\* signal, and the buffer is empty.
FlushOnOpen ==
  \A s \in WsSockets :
    wsClient.sock[s] = "CONNECTING" =>
      LET b == wsClient.sendBuffer
          w == wsOnOpen([WsCur EXCEPT !.sock[s] = "OPEN"], s)
      IN  /\ w.sent = [i \in 1..(Len(b) + 1) |->
                        [sock |-> s, msg |-> IF i <= Len(b) THEN b[i] ELSE WebviewReady]]
          /\ w.sendBuffer = <<>>
          /\ w.lost = <<>> /\ ~w.threw

\* The server's handler for the message of the observer o that arrived
\* first sends, for a ready signal, one snapshot (one roster, one connection
\* status) to o and nothing to another observer, and for another message
\* nothing to anyone.
SnapshotOnReady ==
  \A o \in Observers, found \in {{}, AllAssets} :
    (clients[o] = "OPEN" /\ inbox[o] # <<>>) =>
      LET c == handleBrowserMessage(Cur, o, ToBrowserMessage(Head(inbox[o])), found)
          d == c.delivered[o]
      IN  /\ \A o2 \in Observers \ {o} : c.delivered[o2] = <<>>
          /\ IF Head(inbox[o]) = WebviewReady
               THEN /\ Cardinality({i \in 1..Len(d) : d[i].type = "existingAgents"}) = 1
                    /\ Cardinality({i \in 1..Len(d) : d[i].type = "connectionStatus"}) = 1
                    /\ d[Len(d)].type = "connectionStatus"
               ELSE d = <<>>

\* C31: on every open of a socket of the WebSocketClient the buffered
\* messages are sent in posting order, each once, the buffer is empty
\* afterwards and one ready signal follows them; no buffered message was
\* sent before; the server is sent at most one ready signal per socket, and
\* its handler answers a ready signal with one snapshot to that observer and
\* nothing to any other.  (The messages the browser's code posts are not
\* ready signals.)
C31_FlushThenReady ==
  /\ FlushOnOpen
  /\ \A i \in 1..Len(wsClient.sendBuffer) : wsClient.sendBuffer[i] > wsClient.maxSent
  /\ WsOpen => wsClient.sendBuffer = <<>>
  /\ \A o \in Observers : Cardinality(ReadySignals(inbox[o])) <= 1
  /\ SnapshotOnReady

\* The second socket of the browser opened with two messages in the buffer:
\* it took them, then the ready signal; the server has handled all three and
\* sent the snapshot to the second observer socket, nothing to the first,
\* which is still open at the server.
C31_Witness ==
  /\ wsClient.op = "open"
  /\ wsClient.sent = <<[sock |-> 2, msg |-> 1], [sock |-> 2, msg |-> 2],
                       [sock |-> 2, msg |-> WebviewReady]>>
  /\ wsClient.sendBuffer = <<>>
  /\ inbox[2] = <<>>
  /\ last.op = "webviewReady"
  /\ clients[1] = "OPEN"
  /\ last.delivered[1] = <<>>
  /\ last.delivered[2] =
       <<Msg("settingsLoaded", 0, 0, ""), Roster(<<>>), Msg("layoutLoaded", 0, 0, ""),
         Msg("connectionStatus", 0, 0, state)>>

\* ---- C33 ------------------------------------------------------------------
\* C33: for the tool name Bash and a command of at most 60 characters the
\* status is "Running: " and the command; for a longer command it is
\* "Running: ", the first 60 characters of the command and one ellipsis; for
\* a name that is not known it is "Using " and the name; and a call changes
\* nothing but its result.
C33_FormatToolStatus ==
  fmt.done =>
    LET cmd == IF fmt.input.command = Absent THEN <<>> ELSE fmt.input.command
        running == <<82, 117, 110, 110, 105, 110, 103, 58, 32>>
        st == fmt.status
    IN  /\ (fmt.toolName = Name_Bash /\ Len(cmd) <= 60) => st = running \o cmd
        /\ (fmt.toolName = Name_Bash /\ Len(cmd) > 60) =>
              /\ Len(st) = Len(running) + 61
              /\ SubSeq(st, 1, Len(running)) = running
              /\ \A i \in 1..60 : st[Len(running) + i] = cmd[i]
              /\ st[Len(st)] = Ellipsis
        /\ fmt.toolName \notin KnownToolNames => st = <<85, 115, 105, 110, 103, 32>> \o fmt.toolName
        /\ last.op = "init" /\ agents = [k \in Sessions |-> NoAgent] /\ toolIdCounter = 0

\* A Bash command of 90 characters was formatted: the status has the 9
\* characters of "Running: ", 60 of the command and the ellipsis.
C33_Witness ==
  /\ fmt.done
  /\ fmt.toolName = Name_Bash
  /\ fmt.input.command = Letters(90)
  /\ Len(fmt.status) = 70
  /\ fmt.status[69] = Letters(90)[60]
  /\ fmt.status[70] = Ellipsis

\* ---- C34 ------------------------------------------------------------------
\* The sockets that are connecting or open; the client's handlers stay on a
\* socket for its whole life.
LiveSockets == {s \in Sockets : sock[s] \in {"CONNECTING", "OPEN"}}

\* C34: at most one socket is connecting or open, it is this.ws, and the
\* frame or close event handled last came from the socket that was this.ws
\* when it arrived.
C34_OneLiveSocket ==
  /\ Cardinality(LiveSockets) <= 1
  /\ \A s \in LiveSockets : s = ws
  /\ last.op \in {"message", "close"} => last.sock = last.pre.ws

\* ---- C35 ----
\* C35: while disconnect() is the last of connect() and disconnect() to have
\* been called, the client stays disconnected: its state is disconnected, no
\* reconnect timer is armed and no reconnect timer's callback makes a
\* connection attempt, whatever socket events arrive.
C35_StaysDisconnected ==
  ~wanted =>
    /\ state = "disconnected"
    /\ reconnectTimer = 0
    /\ timers = {}
    /\ last.op # "reconnectTimer"

\* ---- C37 ----
\* C37: a keepalive interval runs exactly when the state is connected, it is
\* the only one and it is this.tickTimer; the gateway's acceptance of the
\* handshake has started one, and after a close event or disconnect() none
\* runs.
C37_KeepaliveWhenConnected ==
  /\ (ticks # {}) <=> (state = "connected")
  /\ Cardinality(ticks) <= 1
  /\ TimerIds(ticks) = (IF tickTimer = 0 THEN {} ELSE {tickTimer})
  /\ HelloOkAnswered => Cardinality(ticks) = 1
  /\ last.op \in {"close", "disconnect"} => ticks = {}

\* ---- C38 ----
\* The tool ids of the entries of the history h that are not done.
OpenTools(h) == {h[i].toolId : i \in {j \in 1..Len(h) : ~h[j].done}}

\* C38: whatever frame arrives, every agentToolDone(id, toolId) it emits
\* names a tool that was open in the history of the agent with that id, and
\* afterwards that agent has no open entry with that tool id.
C38_DoneNamesOpenTool ==
  Listening =>
    \A f \in Frames \cup AllEvents :
      LET c == After(f)
      IN  \A n \in 1..Len(c.dash) :
            c.dash[n].type = "agentToolDone" =>
              \E k \in Tracked :
                /\ sessionToId[k] = c.dash[n].id
                /\ c.dash[n].toolId \in OpenTools(agents[k].toolHistory)
                /\ c.dash[n].toolId \notin OpenTools(c.agents[k].toolHistory)

\* ---- C39 ----
\* C39: the snapshot of an observer with an open socket has, for every agent
\* of status waiting_approval, an agentToolPermission with the id of the
\* agent and one agentToolStart for each entry of its tool history that is
\* not done.
C39_ApprovalReplayed ==
  \A o \in Observers, k \in Tracked :
    (clients[o] = "OPEN" /\ agents[k].status = "waiting_approval") =>
      LET d  == Snapshot(o)
          id == agents[k].id
      IN  /\ \E i \in 1..Len(d) : d[i] = Msg("agentToolPermission", id, 0, "")
          /\ ToolStartsFor(d, id) = OpenToolIds(agents[k].toolHistory)

\* ---- C40 ----
\* The gateway states of the connectionStatus messages in d, in order.
RECURSIVE StatusesIn(_)
StatusesIn(d) ==
  IF d = <<>> THEN <<>>
  ELSE IF Head(d).type = "connectionStatus"
    THEN <<Head(d).arg>> \o StatusesIn(Tail(d))
    ELSE StatusesIn(Tail(d))

\* The states of the connectionState events in e, in order.
RECURSIVE StatesIn(_)
StatesIn(e) ==
  IF e = <<>> THEN <<>>
  ELSE IF Head(e).ev = "connectionState"
    THEN <<Head(e).arg>> \o StatesIn(Tail(e))
    ELSE StatesIn(Tail(e))

\* C40: the entry point that ran last published one connectionStatus for
\* each state it set, in order, the last of them with the current state, and
\* at least one if it changed the state; and every observer with an open
\* socket that has received a snapshot holds the current state of the
\* gateway client as the one of the last connectionStatus it received.
C40_StatusConsistent ==
  /\ StatusesIn(last.dash) = StatesIn(last.emitted)
  /\ last.pre.state # state => StatusesIn(last.dash) # <<>>
  /\ StatusesIn(last.dash) # <<>> =>
        StatusesIn(last.dash)[Len(StatusesIn(last.dash))] = state
  /\ \A o \in Observers :
        (clients[o] = "OPEN" /\ view.replayed[o]) => view.gateway[o] = state

\* An observer received its snapshot and stayed open while the gateway's
\* socket was lost, and the reconnect timer has just made a new attempt: the
\* observer holds connecting.
C40_Witness ==
  /\ last.op = "reconnectTimer" /\ ~last.throws
  /\ last.pre.state = "disconnected" /\ state = "connecting"
  /\ \E o \in Observers :
        clients[o] = "OPEN" /\ view.replayed[o] /\ view.gateway[o] = "connecting"

====
